---- MODULE Spec2Model ----
(***************************************************************************)
(* RAGService (src/rag_service.py): the service's fields, the vector index *)
(* and the generative model as fallible remote services, and the           *)
(* operations initialize, embed_documents, generate_test_cases and         *)
(* generate_test_cases_with_plan, stepped at their remote calls.           *)
(*                                                                         *)
(* Strings are modelled by what the code reads of them: their length, and  *)
(* for a context the cuts applied to it.  Object handles are the number of *)
(* the initialize() call that built them, 0 standing for None.             *)
(***************************************************************************)
EXTENDS Integers, Sequences, FiniteSets, TLC

\* ------------------------------------------------------------------ bounds
MaxDocs == 1            \* records in the store of Spec
RepeatDocs == 2         \* records up to which SpecEmbed embeds repeatedly
MaxInits == 2           \* initialize() calls in one behaviour
MaxEmbeds == 2          \* embed_documents calls in one behaviour
ExtraDocs == 1          \* records beyond one full batch in SpecEmbed
PlanCalls == 1          \* calls of the plan handed to generate_test_cases_with_plan
MaxSegments == 2        \* pieces of a response handed to the parser
MaxSections == 3        \* paragraphs of a documentation text
ExampleDocs == 7        \* records of the store of short records in SpecEmbed

\* ------------------------------------------------------- program constants
RAG_TOP_K == 5
target_batch_size_bytes == 20000
MaxBatchSize == 10
BatchSplitLimit == 25000
DocSkipLimit == 30000
max_context_size == 15000
MinRemainingSpace == 100
PromptLimit == 30000
max_context_for_prompt == 10000
RetryContextSize == 5000
QueryLimit == 25000
DocQueryLimit == 20000
QueryLabelsLen == 88
TruncationNoticeLen == 55
PromptNoticeLen == 44
RetryNoticeLen == 52
MaxDocChars == 1503
ContentLimit == 1500
ContentLabelsLen == 63
PurposeMax == 200
TestDataMax == 150
ItemMax == 100
MaxItems == 5
DefaultTemplateLen == 5000
PlanningMaxSize == 25000
SectionLimit == 2000
SecondPassSpace == 1000
TruncateMargin == 100
PlanningNoteLen == 101

Min(a, b) == IF a < b THEN a ELSE b
Max(a, b) == IF a > b THEN a ELSE b

RECURSIVE SumLen(_)
SumLen(s) == IF s = <<>> THEN 0 ELSE Head(s).len + SumLen(Tail(s))

\* ---------------------------------------------------------------- values
\* A prompt template: the default template plus general rules, or a caller's
\* custom template, possibly wrapped in the preamble of plan call `call`.
NoTemplate == [base |-> "none", call |-> 0]
DefaultTemplate == [base |-> "default", call |-> 0]
CustomTemplate == [base |-> "custom", call |-> 0]
NoContext == [len |-> 0, cuts |-> <<>>]
NoPrompt == [template |-> NoTemplate, context |-> NoContext, question |-> 0]
NoApp == [set |-> FALSE, captured |-> NoTemplate]

\* A document is its text length and whether the text contains "...".
Doc(n, d) == [len |-> n, dots |-> d]

\* A record of the test-case store, by the lengths of its fields.
TestCase(id, purpose, scenerio, test_data, steps, expected, note) ==
  [id |-> id, purpose |-> purpose, scenerio |-> scenerio, test_data |-> test_data,
   steps |-> steps, expected |-> expected, note |-> note]

\* _truncate_text: a text longer than max_length keeps max_length - 3 chars
\* and gets "...".
TruncateText(n, max_length) == IF n <= max_length THEN n ELSE (max_length - 3) + 3
Truncated(n, max_length) == n > max_length

\* ' | '.join of the first five items, each truncated to 100 chars.
RECURSIVE JoinItems(_)
JoinItems(items) ==
  IF items = <<>> THEN 0
  ELSE TruncateText(Head(items), ItemMax)
       + (IF Len(items) > 1 THEN 3 ELSE 0) + JoinItems(Tail(items))
FirstItems(items) == SubSeq(items, 1, Min(Len(items), MaxItems))

\* The content of a record before the size check: the seven labelled lines,
\* stripped.
ContentLen(tc) ==
  ContentLabelsLen + tc.id
  + TruncateText(tc.purpose, PurposeMax) + TruncateText(tc.scenerio, PurposeMax)
  + TruncateText(tc.test_data, TestDataMax)
  + JoinItems(FirstItems(tc.steps)) + JoinItems(FirstItems(tc.expected))
  + TruncateText(tc.note, ItemMax)
  - (IF tc.note = 0 THEN 1 ELSE 0)

FieldTruncated(tc) ==
  \/ Truncated(tc.purpose, PurposeMax) \/ Truncated(tc.scenerio, PurposeMax)
  \/ Truncated(tc.test_data, TestDataMax) \/ Truncated(tc.note, ItemMax)
  \/ \E k \in DOMAIN FirstItems(tc.steps) : Truncated(tc.steps[k], ItemMax)
  \/ \E k \in DOMAIN FirstItems(tc.expected) : Truncated(tc.expected[k], ItemMax)

\* The document load_test_case_documents builds from a record: the content,
\* cut to 1500 chars plus "..." when it is longer.
LoadDocument(tc) ==
  IF ContentLen(tc) > ContentLimit
  THEN Doc(ContentLimit + 3, TRUE)
  ELSE Doc(ContentLen(tc), FieldTruncated(tc))

ShortCase == TestCase(3, 100, 100, 34, <<30>>, <<30>>, 40)
LongCase ==
  TestCase(3, 300, 300, 200, <<120, 120, 120, 120, 120>>,
           <<120, 120, 120, 120, 120>>, 150)

\* The records load_test_case_documents is given.
TestCases ==
  {TestCase(3, p, sc, td, st, ex, n) :
     p \in {0, 100, 200, 300}, sc \in {100, 300}, td \in {34, 200},
     st \in {<<>>, <<30>>, <<120, 120, 120, 120, 120>>,
              <<100, 100, 100, 100, 100, 100>>},
     ex \in {<<30>>, <<120, 120, 120, 120, 120>>}, n \in {0, 40, 150}}

\* The document of the k-th record of the store.
StoreDoc(k) == LoadDocument(IF k % 2 = 1 THEN ShortCase ELSE LongCase)
StoreOf(n) == [k \in 1..n |-> StoreDoc(k)]
\* A store of n short records, each giving a document of 400 chars.
ShortStoreOf(n) == [k \in 1..n |-> LoadDocument(ShortCase)]

\* What the caller sees of a finished call: which operation, its 'success'
\* and its 'error'.  The other keys of a returned dict are given, at the
\* return statement, by EmbedResult and GenerationResult.
NoResult == [op |-> "none", success |-> FALSE, error |-> ""]
Outcome(op, r) == [op |-> op, success |-> r.success, error |-> r.error]

NoEmbedFrame ==
  [documents |-> <<>>, batch_size |-> 0, i |-> 0, embedded_count |-> 0,
   errors |-> <<>>, tried |-> <<>>, added |-> <<>>, batches |-> 0,
   batch_docs |-> <<>>, fell_back |-> {}, add_failed |-> FALSE]

NoGenFrame ==
  [op |-> "none", question |-> 0, custom |-> NoTemplate, documents |-> <<>>,
   context |-> NoContext, final_prompt |-> NoPrompt, generation |-> "",
   template |-> NoTemplate, invoked |-> <<>>, first_failed |-> FALSE,
   retry_failed |-> FALSE, retrieved |-> 0, generated |-> 0]

\* The locals of a create_generation_plan call: the documentation it was
\* given and what the planning model answered.
NoPlanFrame == [doc |-> "none", optimized_doc |-> "none", answer |-> "none"]

\* The locals of a load_test_case_documents iteration: the record and the
\* document built from it.
NoLoadFrame == [test_case |-> "none", doc |-> "none"]

\* A file of the store: absent, written completely with a list of records,
\* or opened for writing and not written to the end.
NoFile == [exists |-> FALSE, complete |-> FALSE, data |-> <<>>]
File(data) == [exists |-> TRUE, complete |-> TRUE, data |-> data]
PartialFile == [exists |-> TRUE, complete |-> FALSE, data |-> <<>>]

\* The locals of _save_data, and of the store operation that runs.
\* A stored record: its key fields and a note standing for the other fields.
Record(id, purpose, note) == [id |-> id, purpose |-> purpose, note |-> note]
NoRecord == Record("", "", "")

\* The locals of _save_data, and of the store operation that runs: what it
\* loaded, the record at hand, what it saves, and whether it succeeded.
NoSaveFrame == [data |-> <<>>]
NoDbFrame == [op |-> "none", before |-> <<>>, case_id |-> "", updated |-> NoRecord,
              saving |-> <<>>, ok |-> FALSE]

VARIABLES
  client, vectorstore, retriever, llm, app, is_initialized, is_embedded,
  store, indexPre, received, connected,
  inits, embeds, everAddFailed,
  pc, ef, gf, result,
  planning_initialized, pf,
  response, test_cases,
  lf,
  db_file, backup_file, sf, df

service == <<client, vectorstore, retriever, llm, app, is_initialized, is_embedded>>
remote == <<store, indexPre, received, connected>>
counters == <<inits, embeds, everAddFailed>>
planning == <<planning_initialized, pf>>
parsing == <<response, test_cases>>
database == <<db_file, backup_file, sf, df>>
aux == <<planning, parsing, lf, database>>
vars == <<service, remote, counters, pc, ef, gf, result, aux>>

\* ------------------------------------------------------------ __init__
\* RAGPlanningService.__init__, and no response handed to the parser yet.
InitAux ==
  /\ planning_initialized = FALSE /\ pf = NoPlanFrame
  /\ response = <<>> /\ test_cases = <<>>
  /\ lf = NoLoadFrame
  /\ db_file = File(<<>>) /\ backup_file = NoFile
  /\ sf = NoSaveFrame /\ df = NoDbFrame

InitService ==
  /\ client = 0 /\ vectorstore = 0 /\ retriever = 0 /\ llm = 0
  /\ app = NoApp
  /\ is_initialized = FALSE /\ is_embedded = FALSE

InitRest ==
  /\ received = [k \in 1..Len(store) |-> 0]
  /\ connected = 0
  /\ inits = 0 /\ embeds = 0
  /\ everAddFailed = FALSE
  /\ pc = "idle"
  /\ ef = NoEmbedFrame /\ gf = NoGenFrame /\ result = NoResult
  /\ InitAux

\* A new service; the index is empty (a new installation) or was filled by
\* an earlier process.
Init ==
  /\ InitService
  /\ store \in {StoreOf(n) : n \in 0..MaxDocs}
  /\ indexPre \in BOOLEAN
  /\ InitRest

\* The index answers a similarity search with a document iff it holds one.
IndexHasData == indexPre \/ \E k \in DOMAIN received : received[k] > 0

\* _setup_workflow(custom_prompt_template): the compiled graph keeps the
\* template it was built with (None for the default).
SetupWorkflow(t) == [set |-> TRUE, captured |-> t]

\* ------------------------------------------------------------ initialize
\* The handle of the objects a new initialize() builds.
FreshHandle == inits + 1

InitOutcomes ==
  {"fail_client", "fail_connect", "fail_vectorstore", "fail_llm",
   "probe_found", "probe_empty", "probe_failed"}

\* The fields after initialize() whose remote calls end as `o`; g is the
\* handle of the objects this call builds.
InitializeEffect(o, g) ==
  LET madeClient == o # "fail_client"
      isConnected == o \notin {"fail_client", "fail_connect"}
      madeStore == o \notin {"fail_client", "fail_connect", "fail_vectorstore"}
      madeLlm == o \in {"probe_found", "probe_empty", "probe_failed"}
  IN [client |-> IF madeClient THEN g ELSE client,
      connected |-> IF isConnected THEN g ELSE 0,
      vectorstore |-> IF madeStore THEN g ELSE vectorstore,
      llm |-> IF madeLlm THEN g ELSE llm,
      is_embedded |-> IF madeLlm THEN o = "probe_found" ELSE is_embedded,
      retriever |-> IF o = "probe_found" THEN g ELSE retriever,
      app |-> IF o = "probe_found" THEN SetupWorkflow(NoTemplate) ELSE app,
      is_initialized |-> IF madeLlm THEN TRUE ELSE is_initialized,
      ok |-> madeLlm]

InitOutcomePossible(o) ==
  /\ o = "probe_found" => IndexHasData
  /\ o = "probe_empty" => ~IndexHasData

ApplyInitialize(e) ==
  /\ client' = e.client
  /\ connected' = e.connected
  /\ vectorstore' = e.vectorstore
  /\ llm' = e.llm
  /\ is_embedded' = e.is_embedded
  /\ retriever' = e.retriever
  /\ app' = e.app
  /\ is_initialized' = e.is_initialized

Initialize ==
  /\ pc = "idle"
  /\ inits < MaxInits
  /\ inits' = inits + 1
  /\ \E o \in InitOutcomes :
       /\ InitOutcomePossible(o)
       /\ ApplyInitialize(InitializeEffect(o, FreshHandle))
       /\ result' = [NoResult EXCEPT !.op = "initialize",
                                     !.success = InitializeEffect(o, FreshHandle).ok]
  /\ UNCHANGED <<store, indexPre, received, embeds, everAddFailed, pc, ef, gf>>
  /\ UNCHANGED aux

\* ------------------------------------------------------- embed_documents
\* add_documents and the retriever reach the index only through the live
\* connection of the client the vector store was built on.
CanReachIndex == vectorstore # 0 /\ connected = vectorstore

\* The batch size without the upper limit of 10.
BatchSizeUncapped(docs) ==
  LET total == SumLen(docs)
      n == Len(docs)
  IN Max(1, IF total < n THEN target_batch_size_bytes
            ELSE (target_batch_size_bytes * n) \div total)

\* optimal_batch_size = max(1, min(10, int(20000 / max(avg_doc_size, 1))))
\* with avg_doc_size = total_content_size / len(documents).
BatchSize(docs) ==
  LET total == SumLen(docs)
      n == Len(docs)
      quotient == IF total < n THEN target_batch_size_bytes
                  ELSE (target_batch_size_bytes * n) \div total
  IN Max(1, Min(MaxBatchSize, quotient))

BatchOf(f) == (f.i + 1) .. Min(f.i + f.batch_size, Len(f.documents))
BatchSeq(f) == [k \in 1..Cardinality(BatchOf(f)) |-> f.i + k]
BatchContentSize(f) == SumLen([k \in 1..Len(BatchSeq(f)) |-> f.documents[f.i + k]])

\* AddOne with the count taken before add_documents is called.
AddOneCountingFirst(f, k, addFails, checkSize) ==
  IF checkSize /\ f.documents[k].len > DocSkipLimit
  THEN [f EXCEPT !.errors = Append(@, [doc |-> k, kind |-> "too_large"])]
  ELSE IF k \in addFails
  THEN [f EXCEPT !.tried[k] = @ + 1,
                 !.embedded_count = @ + 1,
                 !.errors = Append(@, [doc |-> k, kind |-> "add_failed"])]
  ELSE [f EXCEPT !.tried[k] = @ + 1,
                 !.embedded_count = @ + 1,
                 !.added[k] = @ + 1]

\* One document of a per-document loop: skipped when the size check applies
\* and it is over 30,000 chars, else one add_documents([doc]) that fails or not.
AddOne(f, k, addFails, checkSize) ==
  IF checkSize /\ f.documents[k].len > DocSkipLimit
  THEN [f EXCEPT !.errors = Append(@, [doc |-> k, kind |-> "too_large"])]
  ELSE IF k \in addFails
  THEN [f EXCEPT !.tried[k] = @ + 1,
                 !.errors = Append(@, [doc |-> k, kind |-> "add_failed"])]
  ELSE [f EXCEPT !.tried[k] = @ + 1,
                 !.embedded_count = @ + 1,
                 !.added[k] = @ + 1]

RECURSIVE IndividualLoop(_, _, _, _)
IndividualLoop(f, ks, addFails, checkSize) ==
  IF ks = <<>> THEN f
  ELSE IndividualLoop(AddOne(f, Head(ks), addFails, checkSize), Tail(ks),
                      addFails, checkSize)

\* A per-document loop that the first failing document ends.
RECURSIVE IndividualLoopStopping(_, _, _, _)
IndividualLoopStopping(f, ks, addFails, checkSize) ==
  IF ks = <<>> THEN f
  ELSE IF Head(ks) \in addFails
  THEN AddOne(f, Head(ks), addFails, checkSize)
  ELSE IndividualLoopStopping(AddOne(f, Head(ks), addFails, checkSize),
                              Tail(ks), addFails, checkSize)

FallbackStopping(f, addFails) ==
  IndividualLoopStopping(f, BatchSeq(f), addFails, TRUE)

\* except Exception: every document of the failed batch, one by one.
Fallback(f, addFails) == IndividualLoop(f, BatchSeq(f), addFails, TRUE)

\* One iteration of the batch loop.  `batches` counts the iterations,
\* `fell_back` collects the documents of the batches whose add failed.
ProcessBatch(f, batchFails, addFails) ==
  LET done ==
        IF BatchContentSize(f) > BatchSplitLimit
        THEN IndividualLoop(f, BatchSeq(f), addFails, FALSE)
        ELSE IF ~batchFails
        THEN [f EXCEPT !.embedded_count = @ + Len(BatchSeq(f)),
                       !.added = [k \in DOMAIN @ |->
                                    IF k \in BatchOf(f) THEN @[k] + 1 ELSE @[k]]]
        ELSE Fallback([f EXCEPT !.fell_back = @ \cup BatchOf(f)], addFails)
  IN [done EXCEPT !.i = f.i + f.batch_size,
                  !.batches = @ + 1,
                  !.batch_docs = Append(@, BatchSeq(f)),
                  !.add_failed = @ \/ batchFails \/ addFails # {}]

EmbedFailure(msg) ==
  [NoResult EXCEPT !.op = "embed_documents", !.error = msg]

\* EmbedLoad refusing a service that is already embedded.
EmbedLoadOnce ==
  IF Len(store) = 0 \/ is_embedded
  THEN /\ result' = EmbedFailure("Documents already embedded")
       /\ pc' = "idle"
       /\ ef' = NoEmbedFrame
  ELSE /\ ef' = [NoEmbedFrame EXCEPT
                   !.documents = store,
                   !.batch_size = BatchSize(store),
                   !.tried = [k \in 1..Len(store) |-> 0],
                   !.added = [k \in 1..Len(store) |-> 0]]
       /\ pc' = "embed_loop"
       /\ result' = NoResult

\* load_test_case_documents and the set-up of the batch loop.
EmbedLoad ==
  IF Len(store) = 0
  THEN /\ result' = EmbedFailure("No test cases found in database")
       /\ pc' = "idle"
       /\ ef' = NoEmbedFrame
  ELSE /\ ef' = [NoEmbedFrame EXCEPT
                   !.documents = store,
                   !.batch_size = BatchSize(store),
                   !.tried = [k \in 1..Len(store) |-> 0],
                   !.added = [k \in 1..Len(store) |-> 0]]
       /\ pc' = "embed_loop"
       /\ result' = NoResult

\* A store of more than RepeatDocs records is embedded once.
EmbedLimit == IF Len(store) > RepeatDocs THEN 1 ELSE MaxEmbeds

EmbedStart ==
  /\ pc = "idle"
  /\ embeds < EmbedLimit
  /\ embeds' = embeds + 1
  /\ IF is_initialized
     THEN /\ EmbedLoad
          /\ UNCHANGED <<service, connected, inits>>
     ELSE /\ inits < MaxInits
          /\ inits' = inits + 1
          /\ \E o \in InitOutcomes :
               /\ InitOutcomePossible(o)
               /\ ApplyInitialize(InitializeEffect(o, FreshHandle))
               /\ IF InitializeEffect(o, FreshHandle).ok
                  THEN EmbedLoad
                  ELSE /\ result' = EmbedFailure("RAG service initialization failed")
                       /\ pc' = "idle"
                       /\ ef' = NoEmbedFrame
  /\ UNCHANGED <<store, indexPre, received, everAddFailed, gf>>
  /\ UNCHANGED aux

EmbedBatch ==
  /\ pc = "embed_loop"
  /\ ef.i < Len(ef.documents)
  /\ \E batchFails \in BOOLEAN, addFails \in SUBSET BatchOf(ef) :
       /\ ~CanReachIndex => batchFails /\ addFails = BatchOf(ef)
       /\ (~batchFails /\ BatchContentSize(ef) <= BatchSplitLimit) => addFails = {}
       /\ LET f == ProcessBatch(ef, batchFails, addFails)
          IN /\ ef' = f
             /\ received' = [k \in DOMAIN received |->
                               received[k] + f.added[k] - ef.added[k]]
             /\ everAddFailed' = (everAddFailed \/ f.add_failed)
  /\ UNCHANGED <<service, store, indexPre, connected, inits, embeds, pc, gf,
                 result>>
  /\ UNCHANGED aux

\* The dict embed_documents returns after the batch loop.
EmbedResult(f) ==
  [success |-> TRUE, error |-> "", embedded_count |-> f.embedded_count,
   total_documents |-> Len(f.documents), errors |-> f.errors]

\* AfterEmbed without the assignment of the flag.
AfterEmbedNoFlag(f) ==
  IF f.embedded_count > 0
  THEN [retriever |-> vectorstore, app |-> SetupWorkflow(NoTemplate),
        is_embedded |-> is_embedded]
  ELSE [retriever |-> retriever, app |-> app, is_embedded |-> is_embedded]

\* AfterEmbed without the call of _setup_workflow.
AfterEmbedNoWorkflow(f) ==
  IF f.embedded_count > 0
  THEN [retriever |-> vectorstore, app |-> app, is_embedded |-> TRUE]
  ELSE [retriever |-> retriever, app |-> app, is_embedded |-> is_embedded]

\* if embedded_count > 0: the retriever, the workflow and the flag.
\* as_retriever and the compilation of the graph build local objects from
\* constants and call no remote service; they are taken to succeed.
AfterEmbed(f) ==
  IF f.embedded_count > 0
  THEN [retriever |-> vectorstore, app |-> SetupWorkflow(NoTemplate),
        is_embedded |-> TRUE]
  ELSE [retriever |-> retriever, app |-> app, is_embedded |-> is_embedded]

\* After the loop: retriever and workflow when anything was embedded, and
\* the result.
EmbedFinish ==
  /\ pc = "embed_loop"
  /\ ef.i >= Len(ef.documents)
  /\ retriever' = AfterEmbed(ef).retriever
  /\ app' = AfterEmbed(ef).app
  /\ is_embedded' = AfterEmbed(ef).is_embedded
  /\ result' = Outcome("embed_documents", EmbedResult(ef))
  /\ pc' = "idle"
  /\ ef' = NoEmbedFrame
  /\ UNCHANGED <<client, vectorstore, llm, is_initialized, remote, inits,
                 embeds, everAddFailed, gf>>
  /\ UNCHANGED aux

\* ------------------------------------------------------ the RAG workflow
\* What the retriever may answer from an index filled before this process
\* started: at most RAG_TOP_K documents of any size.
RetrievedLists ==
  { <<Doc(400, FALSE)>>,
    <<Doc(MaxDocChars, TRUE), Doc(MaxDocChars, TRUE), Doc(MaxDocChars, TRUE),
      Doc(MaxDocChars, TRUE)>>,
    <<Doc(8000, FALSE), Doc(8000, FALSE), Doc(400, FALSE)>>,
    <<Doc(7449, FALSE), Doc(7449, FALSE), Doc(400, FALSE), Doc(50, FALSE)>> }

\* The documents this service has added, in store order, RAG_TOP_K at most.
RECURSIVE OwnDocuments(_)
OwnDocuments(k) ==
  IF k = 0 THEN <<>>
  ELSE IF received[k] > 0 /\ Len(OwnDocuments(k - 1)) < RAG_TOP_K
  THEN Append(OwnDocuments(k - 1), store[k])
  ELSE OwnDocuments(k - 1)

\* What self.retriever.invoke(question) may return.
Retrievable ==
  {<<>>} \cup (IF indexPre THEN RetrievedLists ELSE {OwnDocuments(Len(store))})

\* The loop without its break: a document that does not fit is cut or
\* passed over, and the loop goes on to the next.
RECURSIVE ContextPartsNoBreak(_, _, _)
ContextPartsNoBreak(docs, parts, total) ==
  IF docs = <<>> THEN parts
  ELSE LET d == Head(docs)
           remaining_space == max_context_size - total - 2
       IN IF total + d.len + 2 <= max_context_size
          THEN ContextPartsNoBreak(Tail(docs), Append(parts, d), total + d.len + 2)
          ELSE IF remaining_space > MinRemainingSpace
          THEN ContextPartsNoBreak(Tail(docs),
                 Append(parts, Doc(Min(d.len, remaining_space - 3) + 3, TRUE)),
                 total + remaining_space + 2)
          ELSE ContextPartsNoBreak(Tail(docs), parts, total)

\* The for loop over the retrieved documents: the parts of the context.
RECURSIVE ContextParts(_, _, _)
ContextParts(docs, parts, total) ==
  IF docs = <<>> THEN parts
  ELSE LET d == Head(docs)
           remaining_space == max_context_size - total - 2
       IN IF total + d.len + 2 <= max_context_size
          THEN ContextParts(Tail(docs), Append(parts, d), total + d.len + 2)
          ELSE IF remaining_space > MinRemainingSpace
          THEN Append(parts, Doc(Min(d.len, remaining_space - 3) + 3, TRUE))
          ELSE parts

\* context = "\n\n".join(context_parts), plus the notice.
BuildContext(docs) ==
  LET parts == ContextParts(docs, <<>>, 0)
      joined == IF parts = <<>> THEN 0 ELSE SumLen(parts) + 2 * (Len(parts) - 1)
      noticed == Len(docs) > Len(parts) \/ \E k \in DOMAIN parts : parts[k].dots
  IN [len |-> joined + (IF noticed THEN TruncationNoticeLen ELSE 0),
      cuts |-> <<>>]

\* context[:n] + notice
CutContext(c, n, notice) == [len |-> Min(c.len, n) + notice, cuts |-> Append(c.cuts, n)]

TemplateLen(t) ==
  (IF t.base = "custom" THEN 200 ELSE DefaultTemplateLen)
  + (IF t.call > 0 THEN 600 ELSE 0)

\* template.format(context=context, question=question)
Format(t, c, q) == [template |-> t, context |-> c, question |-> q]
PromptLen(p) == TemplateLen(p.template) + p.context.len + p.question

\* The template of the generate node of a compiled workflow.
NodeTemplate(a) == IF a.captured = NoTemplate THEN DefaultTemplate ELSE a.captured

\* _create_enhanced_prompt_for_call: the call's preamble around the base prompt.
EnhancedPrompt(custom, call_id) ==
  [base |-> IF custom = NoTemplate THEN "default" ELSE custom.base,
   call |-> call_id]

CustomPrompts == {NoTemplate, CustomTemplate}
QuestionLens == {100, 15100}

\* What get_call_context returns of a call that generate_test_cases_with_plan
\* puts in its query, each text by its length.
CallContext(focus_area, content_scope, description, original_documentation) ==
  [focus_area |-> focus_area, content_scope |-> content_scope,
   description |-> description,
   original_documentation |-> original_documentation]

\* len(focused_query): the labels, the three fields of the call and
\* original_doc[:20000].
FocusedQueryLen(c) ==
  QueryLabelsLen + c.focus_area + c.content_scope + c.description
    + Min(c.original_documentation, DocQueryLimit)

CallContexts ==
  {CallContext(12, 50, 50, 20000), CallContext(12, 50, 50, 30000),
   CallContext(12, 50, 5350, 30000)}

PlanQuestionLens == {FocusedQueryLen(c) : c \in CallContexts}
Outputs == {"cases", "prose", ""}
ErrorGeneration == "Error generating response"

GenFailure(op, msg) == [NoResult EXCEPT !.op = op, !.error = msg]

\* The two checks in the other order.
PreconditionEmbeddedFirst(op) ==
  IF ~is_embedded THEN GenFailure(op, "Documents not embedded")
  ELSE IF ~is_initialized THEN GenFailure(op, "RAG service not initialized")
  ELSE NoResult

\* The two checks every generation call opens with.
Precondition(op) ==
  IF ~is_initialized THEN GenFailure(op, "RAG service not initialized")
  ELSE IF ~is_embedded THEN GenFailure(op, "Documents not embedded")
  ELSE NoResult

\* A workflow whose entry point is the generate node.
StartWorkflowAtGenerate(op, a, custom, q) ==
  IF a.set
  THEN /\ gf' = [NoGenFrame EXCEPT !.op = op, !.question = q, !.custom = custom,
                                   !.template = NodeTemplate(a)]
       /\ pc' = "generate"
       /\ result' = NoResult
  ELSE /\ gf' = NoGenFrame
       /\ pc' = "idle"
       /\ result' = GenFailure(op, "NoneType has no attribute stream")

\* self.app.stream(inputs) on the workflow `a`.
StartWorkflow(op, a, custom, q) ==
  IF a.set
  THEN /\ gf' = [NoGenFrame EXCEPT !.op = op, !.question = q, !.custom = custom,
                                   !.template = NodeTemplate(a)]
       /\ pc' = "retrieve"
       /\ result' = NoResult
  ELSE /\ gf' = NoGenFrame
       /\ pc' = "idle"
       /\ result' = GenFailure(op, "NoneType has no attribute stream")

GenerateTestCases ==
  /\ pc = "idle"
  /\ IF Precondition("generate_test_cases") # NoResult
     THEN /\ result' = Precondition("generate_test_cases")
          /\ UNCHANGED <<app, pc, gf>>
     ELSE \E custom \in CustomPrompts, q \in QuestionLens :
            LET a == IF custom # NoTemplate THEN SetupWorkflow(custom) ELSE app
            IN /\ app' = a
               /\ StartWorkflow("generate_test_cases", a, custom, q)
  /\ UNCHANGED <<client, vectorstore, retriever, llm, is_initialized,
                 is_embedded, remote, counters, ef>>
  /\ UNCHANGED aux

\* get_call_context fails for a call_id the plan lacks; the truncation of a
\* focused query over 25,000 chars reads `combined_doc`, a name the function
\* never binds, and the NameError is returned as the error.
GenerateTestCasesWithPlan ==
  /\ pc = "idle"
  /\ LET op == "generate_test_cases_with_plan"
     IN IF Precondition(op) # NoResult
        THEN /\ result' = Precondition(op)
             /\ UNCHANGED <<app, pc, gf>>
        ELSE \/ /\ result' = GenFailure(op, "Call ID not found in plan")
                /\ UNCHANGED <<app, pc, gf>>
             \/ /\ \E q \in PlanQuestionLens : q > QueryLimit
                /\ result' = GenFailure(op, "name 'combined_doc' is not defined")
                /\ UNCHANGED <<app, pc, gf>>
             \/ \E custom \in CustomPrompts, call_id \in 1..PlanCalls,
                   q \in {n \in PlanQuestionLens : n <= QueryLimit} :
                  LET a == SetupWorkflow(EnhancedPrompt(custom, call_id))
                  IN /\ app' = a
                     /\ StartWorkflow(op, a, custom, q)
  /\ UNCHANGED <<client, vectorstore, retriever, llm, is_initialized,
                 is_embedded, remote, counters, ef>>
  /\ UNCHANGED aux

\* retrieve_documents_node; an exception of the retriever leaves the stream
\* and the call returns it as an error.
RetrieveNode ==
  /\ pc = "retrieve"
  /\ \/ /\ retriever # 0 /\ connected = retriever
        /\ \E docs \in Retrievable :
             gf' = [gf EXCEPT !.documents = docs, !.retrieved = @ + 1]
        /\ pc' = "generate"
        /\ UNCHANGED result
     \/ /\ gf' = [gf EXCEPT !.retrieved = @ + 1]
        /\ pc' = "idle"
        /\ result' = GenFailure(gf.op, "retriever failed")
  /\ UNCHANGED <<service, remote, counters, ef>>
  /\ UNCHANGED aux

\* The context and final prompt the generate node builds before it invokes
\* the model.
PreparePrompt(t, docs, q) ==
  LET context == BuildContext(docs)
      first == Format(t, context, q)
      shrink == PromptLen(first) > PromptLimit /\ context.len > max_context_for_prompt
      context2 == IF shrink
                  THEN CutContext(context, max_context_for_prompt, PromptNoticeLen)
                  ELSE context
  IN [context |-> context2, final_prompt |-> Format(t, context2, q)]

\* A retry whatever the length of the context.
ShouldRetryAlways(c) == c.len >= 0

\* if len(context) > 5000: the failed invocation is tried again.
ShouldRetry(c) == c.len > RetryContextSize

\* generate_response_node up to the first rag_chain.invoke and its except.
GenerateNode ==
  /\ pc = "generate"
  /\ LET p == PreparePrompt(gf.template, gf.documents, gf.question)
         sent == Format(gf.template, p.context, gf.question)
         f == [gf EXCEPT !.context = p.context, !.final_prompt = p.final_prompt,
                         !.invoked = Append(@, sent), !.generated = @ + 1]
     IN \/ \E out \in Outputs :
             /\ gf' = [f EXCEPT !.generation = out]
             /\ pc' = "collect"
        \/ IF ShouldRetry(p.context)
           THEN /\ gf' = [f EXCEPT !.first_failed = TRUE,
                                  !.context = CutContext(p.context, RetryContextSize,
                                                         RetryNoticeLen)]
                /\ pc' = "retry"
           ELSE /\ gf' = [f EXCEPT !.first_failed = TRUE,
                                  !.generation = ErrorGeneration]
                /\ pc' = "collect"
  /\ UNCHANGED <<service, remote, counters, ef, result>>
  /\ UNCHANGED aux

\* The second rag_chain.invoke, with the reduced context.
GenerateRetry ==
  /\ pc = "retry"
  /\ LET f == [gf EXCEPT !.invoked = Append(@, Format(gf.template, gf.context,
                                                      gf.question))]
     IN \/ \E out \in Outputs : gf' = [f EXCEPT !.generation = out]
        \/ gf' = [f EXCEPT !.generation = ErrorGeneration, !.retry_failed = TRUE]
  /\ pc' = "collect"
  /\ UNCHANGED <<service, remote, counters, ef, result>>
  /\ UNCHANGED aux

\* ------------------------------------------- _parse_generated_test_cases
\* A response of the model is a sequence of tokens: the code fence, the
\* brackets and braces, the quote of a string, a key with its colon, a
\* number, a piece of text, a space, a newline, and a `Label:` of the text
\* format.  The regular expressions see the brackets, braces and fences of a
\* string literal like any other; json.loads does not.
T(s, v) == [s |-> s, v |-> v]
Fence == T("F", "")
LBracket == T("[", "")
RBracket == T("]", "")
LBrace == T("{", "")
RBrace == T("}", "")
Quote == T("q", "")
Space == T("sp", "")
Newline == T("nl", "")
Key(name) == T("key", name)
Label(name) == T("label", name)
Text(v) == T("txt", v)

\* JSON values: a string (its tokens), a number, a list of values, an object
\* (its key/value pairs in order).
JStr(atoms) == [t |-> "str", x |-> atoms]
JNum(n) == [t |-> "num", x |-> <<Text(n)>>]
JList(items) == [t |-> "list", x |-> items]
JDict(pairs) == [t |-> "dict", x |-> pairs]
Pair(k, val) == [k |-> k, val |-> val]
NoValue == [t |-> "none", x |-> <<>>]

RECURSIVE Concat(_)
Concat(seqs) == IF seqs = <<>> THEN <<>> ELSE Head(seqs) \o Concat(Tail(seqs))

\* json.dumps
RECURSIVE Dumps(_)
Dumps(val) ==
  CASE val.t = "str" -> <<Quote>> \o val.x \o <<Quote>>
    [] val.t = "num" -> <<T("num", val.x[1].v)>>
    [] val.t = "list" ->
         <<LBracket>> \o Concat([k \in DOMAIN val.x |-> Dumps(val.x[k])]) \o <<RBracket>>
    [] val.t = "dict" ->
         <<LBrace>>
         \o Concat([k \in DOMAIN val.x |-> <<Key(val.x[k].k)>> \o Dumps(val.x[k].val)])
         \o <<RBrace>>

\* The first index from i on whose token is one of `syms`, 0 when none.
RECURSIVE FirstAt(_, _, _)
FirstAt(toks, i, syms) ==
  IF i > Len(toks) THEN 0
  ELSE IF toks[i].s \in syms THEN i
  ELSE FirstAt(toks, i + 1, syms)

Decoded(val, next) == [ok |-> TRUE, val |-> val, next |-> next]
DecodeError == [ok |-> FALSE, val |-> NoValue, next |-> 0]

\* json.loads, by recursive descent from token i.
RECURSIVE DecodeValue(_, _)
RECURSIVE DecodeItems(_, _, _)
RECURSIVE DecodePairs(_, _, _)
DecodeValue(toks, i) ==
  IF i > Len(toks) THEN DecodeError
  ELSE CASE toks[i].s = "q" ->
              LET j == FirstAt(toks, i + 1, {"q"})
              IN IF j = 0 THEN DecodeError
                 ELSE Decoded(JStr(SubSeq(toks, i + 1, j - 1)), j + 1)
         [] toks[i].s = "num" -> Decoded(JNum(toks[i].v), i + 1)
         [] toks[i].s = "[" -> DecodeItems(toks, i + 1, <<>>)
         [] toks[i].s = "{" -> DecodePairs(toks, i + 1, <<>>)
         [] OTHER -> DecodeError

DecodeItems(toks, i, acc) ==
  IF i > Len(toks) THEN DecodeError
  ELSE IF toks[i].s = "]" THEN Decoded(JList(acc), i + 1)
  ELSE LET r == DecodeValue(toks, i)
       IN IF ~r.ok THEN DecodeError
          ELSE DecodeItems(toks, r.next, Append(acc, r.val))

DecodePairs(toks, i, acc) ==
  IF i > Len(toks) THEN DecodeError
  ELSE IF toks[i].s = "}" THEN Decoded(JDict(acc), i + 1)
  ELSE IF toks[i].s # "key" THEN DecodeError
  ELSE LET r == DecodeValue(toks, i + 1)
       IN IF ~r.ok THEN DecodeError
          ELSE DecodePairs(toks, r.next, Append(acc, Pair(toks[i].v, r.val)))

\* json.loads(clean_match): the whole match must be one value.
Loads(toks) ==
  LET r == DecodeValue(toks, 1)
  IN IF r.ok /\ r.next = Len(toks) + 1 THEN r ELSE DecodeError

\* dict.get(k, default): the last pair with the key wins.
HasKey(d, k) == \E i \in DOMAIN d.x : d.x[i].k = k
Get(d, k, default) ==
  IF HasKey(d, k)
  THEN d.x[CHOOSE i \in DOMAIN d.x :
             d.x[i].k = k /\ \A j \in DOMAIN d.x : d.x[j].k = k => j <= i].val
  ELSE default

\* str(v).strip()
RECURSIVE StripLeft(_)
StripLeft(atoms) ==
  IF atoms # <<>> /\ Head(atoms).s = "sp" THEN StripLeft(Tail(atoms)) ELSE atoms
RECURSIVE StripRight(_)
StripRight(atoms) ==
  IF atoms # <<>> /\ atoms[Len(atoms)].s = "sp"
  THEN StripRight(SubSeq(atoms, 1, Len(atoms) - 1)) ELSE atoms
Strip(atoms) == StripRight(StripLeft(atoms))
StrOf(val) ==
  CASE val.t = "str" -> val.x
    [] val.t = "num" -> val.x
    [] OTHER -> <<Text("repr")>>

\* _normalize_test_case
NormalizeTestCase(test_case) ==
  LET steps == Get(test_case, "steps", JList(<<JStr(<<Text("Manual test step")>>)>>))
  IN [id |-> Strip(StrOf(Get(test_case, "id", JStr(<<>>)))),
      purpose |-> Strip(StrOf(Get(test_case, "purpose", JStr(<<>>)))),
      scenerio |-> Strip(StrOf(Get(test_case, "scenerio",
                                   Get(test_case, "scenario", JStr(<<>>))))),
      test_data |-> Strip(StrOf(Get(test_case, "test_data",
                                    JStr(<<Text("Test data")>>)))),
      steps |-> IF steps.t = "str" THEN JList(<<steps>>) ELSE steps]

\* _validate_test_case_structure: the three keys are in the dict.
ValidateTestCaseStructure(test_case) ==
  \A field \in {"id", "purpose", "scenerio"} : field \in DOMAIN test_case

\* re.findall of a fenced pattern: a fence, the opening bracket, lazily up
\* to the first closing bracket that a fence follows.
RECURSIVE ClosingBeforeFence(_, _, _)
ClosingBeforeFence(toks, k, close) ==
  IF k + 1 > Len(toks) THEN 0
  ELSE IF toks[k].s = close /\ toks[k + 1].s = "F" THEN k
  ELSE ClosingBeforeFence(toks, k + 1, close)

RECURSIVE FencedMatches(_, _, _, _)
FencedMatches(toks, from, open, close) ==
  IF from + 1 > Len(toks) THEN <<>>
  ELSE LET j == IF toks[from].s = "F" /\ toks[from + 1].s = open
                THEN ClosingBeforeFence(toks, from + 2, close) ELSE 0
       IN IF j = 0 THEN FencedMatches(toks, from + 1, open, close)
          ELSE <<SubSeq(toks, from + 1, j)>> \o FencedMatches(toks, j + 2, open, close)

\* The first "id" key from i on, 0 when none.
RECURSIVE FirstId(_, _)
FirstId(toks, i) ==
  IF i > Len(toks) THEN 0
  ELSE IF toks[i] = Key("id") THEN i
  ELSE FirstId(toks, i + 1)

\* The next position of a lazy chain: 0 once a link is missing.
Then(toks, i, syms) == IF i = 0 THEN 0 ELSE FirstAt(toks, i + 1, syms)

\* The unfenced array pattern: [ ... { ... "id" ... } ... ], every gap lazy.
RECURSIVE ArrayMatches(_, _)
ArrayMatches(toks, from) ==
  LET i == FirstAt(toks, from, {"["})
      a == Then(toks, i, {"{"})
      d == IF a = 0 THEN 0 ELSE FirstId(toks, a + 1)
      b == Then(toks, d, {"}"})
      j == Then(toks, b, {"]"})
  IN IF j = 0 THEN <<>>
     ELSE <<SubSeq(toks, i, j)>> \o ArrayMatches(toks, j + 1)

\* The simple object pattern: { ... "id" ... } with no brace in between.
RECURSIVE ObjectMatches(_, _)
ObjectMatches(toks, from) ==
  LET i == FirstAt(toks, from, {"{"})
      j == Then(toks, i, {"{", "}"})
  IN IF j = 0 THEN <<>>
     ELSE IF toks[j].s = "}" /\ FirstId(SubSeq(toks, i, j), 1) # 0
     THEN <<SubSeq(toks, i, j)>> \o ObjectMatches(toks, j + 1)
     ELSE ObjectMatches(toks, i + 1)

\* patterns, in the order of the list.
Patterns == <<"array in code block", "object in code block",
              "array without code block", "simple objects">>

MatchesOf(toks, k) ==
  CASE k = 1 -> FencedMatches(toks, 1, "[", "]")
    [] k = 2 -> FencedMatches(toks, 1, "{", "}")
    [] k = 3 -> ArrayMatches(toks, 1)
    [] k = 4 -> ObjectMatches(toks, 1)

\* A dict is normalized and appended when it validates.
CasesOfItem(item) ==
  IF item.t = "dict" /\ ValidateTestCaseStructure(NormalizeTestCase(item))
  THEN <<NormalizeTestCase(item)>> ELSE <<>>

\* The body of `for i, match in enumerate(matches)`: a match that does not
\* decode is skipped.
CasesOfMatch(match) ==
  LET r == Loads(match)
  IN IF ~r.ok THEN <<>>
     ELSE IF r.val.t = "list"
     THEN Concat([k \in DOMAIN r.val.x |-> CasesOfItem(r.val.x[k])])
     ELSE CasesOfItem(r.val)

CasesOfPattern(toks, k) ==
  Concat([m \in DOMAIN MatchesOf(toks, k) |-> CasesOfMatch(MatchesOf(toks, k)[m])])

\* The pattern loop without its break: every pattern adds its cases.
RECURSIVE PatternLoopAll(_, _)
PatternLoopAll(toks, k) ==
  IF k > Len(Patterns) THEN <<>>
  ELSE CasesOfPattern(toks, k) \o PatternLoopAll(toks, k + 1)

\* for pattern in patterns: ... if test_cases: break
RECURSIVE PatternLoop(_, _)
PatternLoop(toks, k) ==
  IF k > Len(Patterns) THEN <<>>
  ELSE IF CasesOfPattern(toks, k) # <<>> THEN CasesOfPattern(toks, k)
  ELSE PatternLoop(toks, k + 1)

\* response.split('\n'); a fence stands on a line of its own.
RECURSIVE Lines(_, _)
Lines(toks, line) ==
  IF toks = <<>> THEN <<line>>
  ELSE IF Head(toks).s \in {"nl", "F"} THEN <<line>> \o Lines(Tail(toks), <<>>)
  ELSE Lines(Tail(toks), Append(line, Head(toks)))

HasLabel(line, name) == \E k \in DOMAIN line : line[k] = Label(name)

\* .strip('"\'')
RECURSIVE StripQuotes(_)
StripQuotes(atoms) ==
  IF atoms # <<>> /\ Head(atoms).s = "q" THEN StripQuotes(Tail(atoms))
  ELSE IF atoms # <<>> /\ atoms[Len(atoms)].s = "q"
  THEN StripQuotes(SubSeq(atoms, 1, Len(atoms) - 1))
  ELSE atoms

\* line.split(':', 1)[-1].strip().strip('"\''): a label and a key end in
\* the colon.
AfterColon(line) ==
  LET c == FirstAt(line, 1, {"label", "key"})
  IN JStr(StripQuotes(Strip(IF c = 0 THEN line ELSE SubSeq(line, c + 1, Len(line)))))

NumKeys(pairs) == Cardinality({pairs[k].k : k \in DOMAIN pairs})

\* One line of _parse_text_format on the state [current_case, test_cases].
TextLine(st, line) ==
  IF HasLabel(line, "id")
  THEN [test_cases |-> IF NumKeys(st.current_case) >= 3
                       THEN Append(st.test_cases,
                                   NormalizeTestCase(JDict(st.current_case)))
                       ELSE st.test_cases,
        current_case |-> <<Pair("id", AfterColon(line))>>]
  ELSE IF st.current_case = <<>> THEN st
  ELSE IF HasLabel(line, "purpose") \/ \E k \in DOMAIN line : line[k] = Key("purpose")
  THEN [st EXCEPT !.current_case = Append(@, Pair("purpose", AfterColon(line)))]
  ELSE IF HasLabel(line, "scenario")
  THEN [st EXCEPT !.current_case = Append(@, Pair("scenerio", AfterColon(line)))]
  ELSE IF HasLabel(line, "test data")
  THEN [st EXCEPT !.current_case = Append(@, Pair("test_data", AfterColon(line)))]
  ELSE IF HasLabel(line, "note")
  THEN [st EXCEPT !.current_case = Append(@, Pair("note", AfterColon(line)))]
  ELSE st

RECURSIVE TextLines(_, _)
TextLines(st, lines) ==
  IF lines = <<>> THEN st ELSE TextLines(TextLine(st, Head(lines)), Tail(lines))

\* _parse_text_format
ParseTextFormat(toks) ==
  LET st == TextLines([test_cases |-> <<>>, current_case |-> <<>>], Lines(toks, <<>>))
  IN IF NumKeys(st.current_case) >= 3
     THEN Append(st.test_cases, NormalizeTestCase(JDict(st.current_case)))
     ELSE st.test_cases

\* The parser without its exception handlers: a match that json.loads
\* rejects ends the call.
PropagatesDecodeError(toks) ==
  \E k \in DOMAIN Patterns :
    \E m \in DOMAIN MatchesOf(toks, k) : ~Loads(MatchesOf(toks, k)[m]).ok

\* except Exception: return [] around the whole body: nothing leaves the
\* parser as an exception.
Propagates(toks) == FALSE

\* _parse_generated_test_cases
ParseGeneratedTestCases(toks) ==
  LET found == PatternLoop(toks, 1)
      cases == IF found = <<>> THEN ParseTextFormat(toks) ELSE found
  IN SelectSeq(cases, ValidateTestCaseStructure)

\* ------------------------------------------------------ parser inputs
\* A test case object with the three fields as strings.
Case(id, purpose, scenerio) ==
  JDict(<<Pair("id", JStr(id)), Pair("purpose", JStr(purpose)),
          Pair("scenerio", JStr(scenerio))>>)
Named(name) == Case(<<Text(name)>>, <<Text("p")>>, <<Text("s")>>)
InFence(toks) == <<Fence>> \o toks \o <<Fence>>

\* A test case in the text format, one `Label: value` per line.
TextCase(name, labels) ==
  <<Label("id"), Space, Text(name)>>
  \o Concat([k \in DOMAIN labels |-> <<Newline, Label(labels[k]), Space, Text("v")>>])

\* The pieces a response of the model is made of: prose, an array or an
\* object in a code block, an array or an object without one, the text
\* format, an array of numbers, a truncated array, objects that lack fields.
Segments ==
  { <<Text("prose")>>,
    InFence(Dumps(JList(<<Named("A")>>))),
    InFence(Dumps(Named("B"))),
    Dumps(JList(<<Named("C")>>)),
    Dumps(Named("D")),
    TextCase("E", <<"purpose", "scenario">>),
    TextCase("F", <<"purpose">>),
    TextCase("G", <<"purpose", "note">>),
    InFence(Dumps(JList(<<JNum("1")>>))),
    <<Fence, LBracket, LBrace, Key("id"), Quote, Text("H")>>,
    InFence(Dumps(JList(<<JDict(<<Pair("id", JStr(<<Text("I")>>))>>)>>))),
    InFence(Dumps(JList(<<JDict(<<Pair("id", JNum("7")),
                                  Pair("purpose", JStr(<<Space, Text("p")>>)),
                                  Pair("scenario", JStr(<<Text("s")>>))>>)>>))) }

\* The texts of a field: plain, padded, and with the closing brace, the
\* closing bracket and the fence inside the string.
FieldTexts ==
  { <<Text("p")>>,
    <<Space, Text("p"), Space>>,
    <<Text("a"), RBracket, Fence, Text("b")>>,
    <<Text("a"), RBrace, RBracket, Fence, Text("b")>> }
Cases == {Case(i, p, s) : i \in FieldTexts, p \in FieldTexts, s \in FieldTexts}

\* The response that is json.dumps of a list of one test case in a code
\* block.
RoundTrip(case) == InFence(Dumps(JList(<<case>>)))

\* Responses of up to MaxSegments pieces, one per line.
RECURSIVE Joined(_)
Joined(n) ==
  IF n = 0 THEN {<<>>}
  ELSE Joined(n - 1)
       \cup {r \o <<Newline>> \o seg : r \in Joined(n - 1) \ {<<>>}, seg \in Segments}
       \cup Segments
Responses == Joined(MaxSegments) \cup {RoundTrip(case) : case \in Cases}

\* The text of a generation of the model.
ResponseOf(generation) ==
  CASE generation = "" -> <<>>
    [] generation = "cases" -> RoundTrip(Named("TC1"))
    [] OTHER -> <<Text(generation)>>

\* _parse_generated_test_cases(response) for a response of the model.
ParseResponse ==
  /\ pc = "idle"
  /\ \E toks \in Responses :
       /\ response' = toks
       /\ test_cases' = ParseGeneratedTestCases(toks)
       /\ pc' = IF Propagates(toks) THEN "raised" ELSE "parsed"
  /\ UNCHANGED <<service, remote, counters, ef, gf, result, planning, lf, database>>

\* The caller has taken the list.
ParseReturn ==
  /\ pc = "parsed"
  /\ pc' = "idle"
  /\ response' = <<>> /\ test_cases' = <<>>
  /\ UNCHANGED <<service, remote, counters, ef, gf, result, planning, lf, database>>

\* The dict a generation call returns once the stream has ended.
GenerationResult(f) ==
  IF f.generation # ""
  THEN [success |-> TRUE, error |-> "",
        generated_cases |-> ParseGeneratedTestCases(ResponseOf(f.generation)),
        raw_response |-> f.generation,
        final_prompt |-> f.final_prompt, context_used |-> f.context,
        used_custom_prompt |-> (f.custom # NoTemplate)]
  ELSE [success |-> FALSE, error |-> "No response generated",
        raw_response |-> "", final_prompt |-> NoPrompt,
        context_used |-> NoContext, used_custom_prompt |-> FALSE]

\* The stream loop ends; the call builds its result.
GenerateReturn ==
  /\ pc = "collect"
  /\ result' = Outcome(gf.op, GenerationResult(gf))
  /\ pc' = "idle"
  /\ gf' = NoGenFrame
  /\ UNCHANGED <<service, remote, counters, ef>>
  /\ UNCHANGED aux

\* ------------------------------------------------- JSONDatabaseManager
Ids == {"TC1", "TC2"}
Purposes == {"p", "q"}
Notes == {"old", "new"}
Records == {Record(i, p, n) : i \in Ids, p \in Purposes, n \in Notes}

\* _load_data: a missing file and a file that is no JSON give [].
LoadData(file) == IF file.exists /\ file.complete THEN file.data ELSE <<>>

SameKey(item, test_case) ==
  item.id = test_case.id /\ item.purpose = test_case.purpose

\* A duplicate check that never finds one.
NeverDuplicate(data, test_case) == FALSE

\* create_test_case: the check for a duplicate.
Duplicate(data, test_case) ==
  \E k \in DOMAIN data : SameKey(data[k], test_case)

\* The first index of data that satisfies Test, 0 when none.
FirstIndex(data, Test(_)) ==
  IF \E k \in DOMAIN data : Test(data[k])
  THEN CHOOSE k \in DOMAIN data : Test(data[k]) /\ \A j \in 1..(k - 1) : ~Test(data[j])
  ELSE 0

\* A store operation starts saving `data`, or returns `ok` without saving.
StartSave(op, before, case_id, updated, data) ==
  /\ df' = [op |-> op, before |-> before, case_id |-> case_id, updated |-> updated,
            saving |-> data, ok |-> FALSE]
  /\ sf' = [data |-> data]
  /\ pc' = "save"
ReturnUnsaved(op, before, case_id, updated, ok) ==
  /\ df' = [op |-> op, before |-> before, case_id |-> case_id, updated |-> updated,
            saving |-> before, ok |-> ok]
  /\ sf' = NoSaveFrame
  /\ pc' = "db_return"

\* JSONDatabaseManager.create_test_case from the loaded data on.
CreateFrom(op, data, case_id, test_case) ==
  IF Duplicate(data, test_case)
  THEN ReturnUnsaved(op, data, case_id, test_case, FALSE)
  ELSE StartSave(op, data, case_id, test_case, Append(data, test_case))

\* JSONDatabaseManager.update_test_case from the loaded data on: the first
\* record with the key is replaced, and without one the record is created.
UpdateFrom(op, data, case_id, test_case) ==
  LET i == FirstIndex(data, LAMBDA item : SameKey(item, test_case))
  IN IF i # 0
     THEN StartSave(op, data, case_id, test_case, [data EXCEPT ![i] = test_case])
     ELSE CreateFrom(op, data, case_id, test_case)

Untouched == UNCHANGED <<service, remote, counters, ef, gf, result, planning, parsing, lf>>

CreateTestCase ==
  /\ pc = "idle"
  /\ \E test_case \in Records :
       CreateFrom("create_test_case", LoadData(db_file), test_case.id, test_case)
  /\ UNCHANGED <<db_file, backup_file>>
  /\ Untouched

\* update_test_case and upsert_test_case of the store.
UpdateTestCase ==
  /\ pc = "idle"
  /\ \E test_case \in Records :
       UpdateFrom("update_test_case", LoadData(db_file), test_case.id, test_case)
  /\ UNCHANGED <<db_file, backup_file>>
  /\ Untouched

\* delete_test_case(case_id, purpose): with a purpose the record of the key,
\* without one ("" here) every record of the id.
DeleteTestCase ==
  /\ pc = "idle"
  /\ \E case_id \in Ids, purpose \in Purposes \cup {""} :
       LET data == LoadData(db_file)
           Kept(item) == IF purpose # ""
                         THEN ~(item.id = case_id /\ item.purpose = purpose)
                         ELSE item.id # case_id
           kept == SelectSeq(data, Kept)
       IN IF Len(kept) < Len(data)
          THEN StartSave("delete_test_case", data, case_id, NoRecord, kept)
          ELSE ReturnUnsaved("delete_test_case", data, case_id, NoRecord, FALSE)
  /\ UNCHANGED <<db_file, backup_file>>
  /\ Untouched

\* The updates maps of TestCaseService.update_test_case.
Updates ==
  {[field |-> "note", value |-> "new"]}
  \cup {[field |-> "purpose", value |-> p] : p \in Purposes}
  \cup {[field |-> "id", value |-> i] : i \in Ids}
ApplyUpdates(existing, updates) ==
  CASE updates.field = "note" -> [existing EXCEPT !.note = updates.value]
    [] updates.field = "purpose" -> [existing EXCEPT !.purpose = updates.value]
    [] updates.field = "id" -> [existing EXCEPT !.id = updates.value]

\* TestCaseService.update_test_case(case_id, updates): the first record with
\* the id gets the updates and goes to the store's update_test_case.
ServiceUpdateTestCase ==
  /\ pc = "idle"
  /\ \E case_id \in Ids, updates \in Updates :
       LET data == LoadData(db_file)
           i == FirstIndex(data, LAMBDA item : item.id = case_id)
       IN IF i = 0
          THEN ReturnUnsaved("service_update", data, case_id, NoRecord, FALSE)
          ELSE UpdateFrom("service_update", data, case_id,
                          ApplyUpdates(data[i], updates))
  /\ UNCHANGED <<db_file, backup_file>>
  /\ Untouched

\* _save_data: the current file is renamed to the backup.
SaveRename ==
  /\ pc = "save"
  /\ IF db_file.exists
     THEN db_file' = NoFile /\ backup_file' = db_file
     ELSE UNCHANGED <<db_file, backup_file>>
  /\ pc' = "save_open"
  /\ UNCHANGED <<sf, df>>
  /\ Untouched

\* open(self.db_path, 'w')
SaveOpen ==
  /\ pc = "save_open"
  /\ db_file' = PartialFile
  /\ pc' = "save_dump"
  /\ UNCHANGED <<backup_file, sf, df>>
  /\ Untouched

\* json.dump(data, f) to the end, and the file is closed.
SaveDump ==
  /\ pc = "save_dump"
  /\ db_file' = File(sf.data)
  /\ pc' = "save_unlink"
  /\ UNCHANGED <<backup_file, sf, df>>
  /\ Untouched

\* The backup is removed; the operation returns True.
SaveUnlink ==
  /\ pc = "save_unlink"
  /\ backup_file' = NoFile
  /\ df' = [df EXCEPT !.ok = TRUE]
  /\ pc' = "db_return"
  /\ UNCHANGED <<db_file, sf>>
  /\ Untouched

\* A step of _save_data raises: the backup, when there is one, is renamed
\* back, and the operation that saved returns False.
SaveFail ==
  /\ pc \in {"save", "save_open", "save_dump", "save_unlink"}
  /\ IF backup_file.exists
     THEN db_file' = backup_file /\ backup_file' = NoFile
     ELSE UNCHANGED <<db_file, backup_file>>
  /\ df' = [df EXCEPT !.ok = FALSE]
  /\ pc' = "db_return"
  /\ UNCHANGED sf
  /\ Untouched

\* The store operation returns.
DbReturn ==
  /\ pc = "db_return"
  /\ result' = [op |-> df.op, success |-> df.ok, error |-> ""]
  /\ pc' = "idle"
  /\ df' = NoDbFrame /\ sf' = NoSaveFrame
  /\ UNCHANGED <<db_file, backup_file>>
  /\ UNCHANGED <<service, remote, counters, ef, gf, planning, parsing, lf>>

\* The process stops inside _save_data; the files stay as they are.
Stop ==
  /\ pc \in {"save", "save_open", "save_dump", "save_unlink"}
  /\ pc' = "stopped"
  /\ sf' = NoSaveFrame
  /\ UNCHANGED <<db_file, backup_file, df>>
  /\ Untouched

\* init_database of the next process: a missing file is written as [] by
\* _save_data, which ends by removing the backup.
InitDatabase ==
  /\ pc = "stopped"
  /\ IF db_file.exists
     THEN UNCHANGED <<db_file, backup_file>>
     ELSE db_file' = File(<<>>) /\ backup_file' = NoFile
  /\ pc' = "reopened"
  /\ UNCHANGED <<sf, df>>
  /\ Untouched

\* ----------------------------------------------- load_test_case_documents
\* One iteration of the loop of load_test_case_documents: the document of a
\* record.
LoadTestCaseDocument ==
  /\ pc = "idle"
  /\ \E tc \in TestCases : lf' = [test_case |-> tc, doc |-> LoadDocument(tc)]
  /\ pc' = "loaded"
  /\ UNCHANGED <<service, remote, counters, ef, gf, result, planning, parsing,
                 database>>

\* documents.append(doc)
LoadReturn ==
  /\ pc = "loaded"
  /\ pc' = "idle"
  /\ lf' = NoLoadFrame
  /\ UNCHANGED <<service, remote, counters, ef, gf, result, planning, parsing,
                 database>>

\* ------------------------------------------------- create_generation_plan
\* A documentation text: its length, who wrote it, and its paragraphs, the
\* pieces between blank lines.  A paragraph is blank, plain, has a priority
\* keyword, or has one of 'endpoint', 'api', 'method' among them.
Section(n, kind) == [len |-> n, kind |-> kind]
IsPriority(section) == section.kind \in {"priority", "endpoint"}
JoinedLen(sections) ==
  IF sections = <<>> THEN 0 ELSE SumLen(sections) + 2 * (Len(sections) - 1)
ApiDoc(sections) ==
  [len |-> JoinedLen(sections), origin |-> "caller", sections |-> sections]
Documentation(n) == ApiDoc(<<Section(n, "plain")>>)
CombinedByModel == [len |-> 9000, origin |-> "model", sections |-> <<>>]
OriginalByModel == [len |-> 700, origin |-> "model", sections |-> <<>>]

\* First pass: the priority paragraphs that fit, in order.
RECURSIVE FirstPass(_, _, _)
FirstPass(sections, optimized_sections, current_size) ==
  IF sections = <<>>
  THEN [optimized_sections |-> optimized_sections, current_size |-> current_size]
  ELSE LET section == Head(sections)
       IN IF /\ section.kind # "blank"
             /\ IsPriority(section)
             /\ current_size + section.len + 2 <= PlanningMaxSize
          THEN FirstPass(Tail(sections), Append(optimized_sections, section),
                         current_size + section.len + 2)
          ELSE FirstPass(Tail(sections), optimized_sections, current_size)

\* Second pass: the other paragraphs of 2,000 chars or less while they fit;
\* the first that does not fit ends the loop, cut to remaining_space - 100
\* chars and an ellipsis when it names an endpoint, api or method.
RECURSIVE SecondPass(_, _, _, _)
SecondPass(sections, optimized_sections, current_size, remaining_space) ==
  IF sections = <<>> THEN optimized_sections
  ELSE LET section == Head(sections)
           included == \E k \in DOMAIN optimized_sections :
                         optimized_sections[k] = section
       IN IF included \/ section.kind = "blank" \/ section.len > SectionLimit
          THEN SecondPass(Tail(sections), optimized_sections, current_size,
                          remaining_space)
          ELSE IF current_size + section.len + 2 <= PlanningMaxSize
          THEN SecondPass(Tail(sections), Append(optimized_sections, section),
                          current_size + section.len + 2, remaining_space)
          ELSE IF section.kind = "endpoint"
          THEN Append(optimized_sections,
                      Section(Min(section.len, remaining_space - TruncateMargin) + 3,
                              "endpoint"))
          ELSE optimized_sections

\* _optimize_documentation_for_planning: a text of 25,000 chars or less is
\* returned as it is; of a longer one the selected paragraphs are joined and
\* the note is appended when the result is shorter than the text.
OptimizeForPlanning(d) ==
  IF d.len <= PlanningMaxSize THEN d
  ELSE LET first == FirstPass(d.sections, <<>>, 0)
           remaining_space == PlanningMaxSize - first.current_size
           optimized_sections ==
             IF remaining_space > SecondPassSpace
             THEN SecondPass(d.sections, first.optimized_sections,
                             first.current_size, remaining_space)
             ELSE first.optimized_sections
           joined == JoinedLen(optimized_sections)
       IN [len |-> IF joined < d.len THEN joined + PlanningNoteLen ELSE joined,
           origin |-> "optimized", sections |-> optimized_sections]

\* The paragraphs of the documentation texts: one that fills the limit
\* alone, two that fill most of it, an endpoint paragraph, plain paragraphs
\* at and over the 2,000 chars of the second pass, one over the whole limit.
Sections ==
  { Section(0, "blank"), Section(24998, "priority"), Section(12000, "priority"),
    Section(11000, "priority"), Section(1999, "endpoint"), Section(900, "plain"),
    Section(2000, "plain"), Section(2001, "plain"), Section(30000, "plain") }
RECURSIVE SectionLists(_)
SectionLists(n) ==
  IF n = 0 THEN {<<>>}
  ELSE SectionLists(n - 1)
       \cup {Append(l, sec) : l \in SectionLists(n - 1), sec \in Sections}
LongDocs ==
  {ApiDoc(l) : l \in {x \in SectionLists(MaxSections) : JoinedLen(x) > PlanningMaxSize}}

\* _optimize_documentation_for_planning(api_doc) for a text over the limit.
OptimizeDocumentation ==
  /\ pc = "idle"
  /\ \E d \in LongDocs :
       pf' = [doc |-> d, optimized_doc |-> OptimizeForPlanning(d), answer |-> "none"]
  /\ pc' = "optimized"
  /\ UNCHANGED <<service, remote, counters, ef, gf, result, planning_initialized,
                 parsing, lf, database>>

\* The caller has taken the optimized text.
OptimizeReturn ==
  /\ pc = "optimized"
  /\ pc' = "idle"
  /\ pf' = NoPlanFrame
  /\ UNCHANGED <<service, remote, counters, ef, gf, result, planning_initialized,
                 parsing, lf, database>>

required_fields ==
  {"combined_documentation", "estimated_calls_needed", "generation_calls",
   "total_estimated_test_cases"}
required_call_fields == {"call_id", "focus_area", "description", "content_scope"}

\* One entry of generation_calls as the model wrote it: an object with the
\* keys `fields`, or something that is no object.
PlanCall(id, focus, fields) ==
  [is_dict |-> TRUE, fields |-> fields, call_id |-> id, focus_area |-> focus]
NotACall == [is_dict |-> FALSE, fields |-> {}, call_id |-> 0, focus_area |-> ""]

\* The JSON object of the model's answer: its keys, generation_calls (a list
\* or not), and the values the later code reads.
PlanData(fields, calls_is_list, calls, complexity) ==
  [fields |-> fields, calls_is_list |-> calls_is_list, generation_calls |-> calls,
   combined_documentation |-> CombinedByModel,
   original_documentation |-> OriginalByModel,
   complexity_analysis |-> complexity]

FullCall(id, focus) == PlanCall(id, focus, required_call_fields)

\* The lists the model may write as generation_calls.
CallLists ==
  {<<>>, <<NotACall>>, <<FullCall(1, "a"), NotACall>>}
  \cup {<<FullCall(i, "a")>> : i \in 1..PlanCalls}
  \cup {<<FullCall(i, "a"), FullCall(j, "b")>> : i \in 1..PlanCalls, j \in 1..(PlanCalls + 1)}
  \cup {<<PlanCall(1, "a", required_call_fields \ {f})>> : f \in required_call_fields}
  \cup {<<FullCall(1, "a"), PlanCall(2, "b", required_call_fields \ {f})>> :
          f \in required_call_fields}

FieldSets ==
  {required_fields, required_fields \cup {"original_documentation"},
   required_fields \cup {"complexity_analysis"}}
  \cup {required_fields \ {f} : f \in required_fields}

\* What chain.invoke may give: an exception, text without a JSON object,
\* text whose braces hold no valid JSON, or a JSON object.
PlanAnswers ==
  {[kind |-> "raised"], [kind |-> "no_json"], [kind |-> "bad_json"]}
  \cup {[kind |-> "json", data |-> PlanData(fs, TRUE, cs, c)] :
          fs \in FieldSets, cs \in CallLists, c \in {"dict"}}
  \cup {[kind |-> "json", data |-> PlanData(fs, FALSE, <<>>, "dict")] : fs \in FieldSets}
  \cup {[kind |-> "json",
          data |-> PlanData(required_fields \cup {"complexity_analysis"}, TRUE,
                            <<FullCall(1, "a")>>, "string")]}

PlanDocs == {Documentation(1200), Documentation(PlanningMaxSize + 5000)}

\* A validation that looks at the top-level fields and the list only.
ValidatePlanTopLevel(plan_data) ==
  /\ \A field \in required_fields : field \in plan_data.fields
  /\ plan_data.calls_is_list /\ Len(plan_data.generation_calls) # 0

\* _validate_plan_structure
ValidatePlanStructure(plan_data) ==
  /\ \A field \in required_fields : field \in plan_data.fields
  /\ plan_data.calls_is_list /\ Len(plan_data.generation_calls) # 0
  /\ \A k \in DOMAIN plan_data.generation_calls :
       LET call == plan_data.generation_calls[k]
       IN /\ call.is_dict
          /\ \A field \in required_call_fields : field \in call.fields

\* A failure result that carries no error.
PlanFailureSilent(msg) == [success |-> FALSE, error |-> "", plan |-> "none"]

PlanFailure(msg) == [success |-> FALSE, error |-> msg, plan |-> "none"]

\* The documentation of the planning prompt stored in place of the caller's.
StoreOptimized(plan_data, api_documentation) ==
  [plan_data EXCEPT !.fields = @ \cup {"original_documentation"},
                    !.original_documentation = OptimizeForPlanning(api_documentation)]

\* plan_data["original_documentation"] = api_documentation
StoreOriginal(plan_data, api_documentation) ==
  [plan_data EXCEPT !.fields = @ \cup {"original_documentation"},
                    !.original_documentation = api_documentation]

\* What RAGPlanningService.create_generation_plan returns for the answer of
\* the model, and what RAGService.create_generation_plan makes of it: its
\* summary reads complexity_analysis with .get, which only an object has.
PlanResult(f) ==
  IF f.answer.kind = "raised" THEN PlanFailure("planning model failed")
  ELSE IF f.answer.kind = "no_json"
  THEN PlanFailure("No valid JSON found in planning response")
  ELSE IF f.answer.kind = "bad_json"
  THEN PlanFailure("Failed to parse planning response")
  ELSE IF ~ValidatePlanStructure(f.answer.data)
  THEN PlanFailure("Invalid plan structure returned from LLM")
  ELSE IF "complexity_analysis" \in f.answer.data.fields
          /\ f.answer.data.complexity_analysis # "dict"
  THEN PlanFailure("'str' object has no attribute 'get'")
  ELSE [success |-> TRUE, error |-> "",
        plan |-> StoreOriginal(f.answer.data, f.doc)]

\* get_call_context: the first call of the plan with this call_id.
CallsWithId(plan, call_id) ==
  {k \in DOMAIN plan.generation_calls : plan.generation_calls[k].call_id = call_id}

GetCallContext(plan, call_id) ==
  IF CallsWithId(plan, call_id) = {}
  THEN [success |-> FALSE, error |-> "Call ID not found in plan"]
  ELSE LET k == CHOOSE i \in CallsWithId(plan, call_id) :
                  \A j \in CallsWithId(plan, call_id) : i <= j
       IN [success |-> TRUE, error |-> "",
           context |->
             [combined_documentation |->
                IF "combined_documentation" \in plan.fields
                THEN plan.combined_documentation ELSE "",
              original_documentation |->
                IF "original_documentation" \in plan.fields
                THEN plan.original_documentation ELSE "",
              focus_area |-> plan.generation_calls[k].focus_area,
              call |-> k,
              call_id |-> call_id,
              total_calls |-> Len(plan.generation_calls)]]

\* RAGService.create_generation_plan up to chain.invoke: the planning service
\* is initialized when it is not yet, and the model is asked.
CreateGenerationPlan ==
  /\ pc = "idle"
  /\ \/ /\ ~planning_initialized
        /\ result' = [NoResult EXCEPT !.op = "create_generation_plan",
                                      !.error = "Failed to initialize planning service"]
        /\ UNCHANGED <<planning, pc>>
     \/ /\ planning_initialized' = TRUE
        /\ \E d \in PlanDocs, a \in PlanAnswers :
             pf' = [doc |-> d, optimized_doc |-> OptimizeForPlanning(d), answer |-> a]
        /\ pc' = "plan"
        /\ result' = NoResult
  /\ UNCHANGED <<service, remote, counters, ef, gf, parsing, lf, database>>

\* The answer is parsed and validated, and the call returns.
PlanReturn ==
  /\ pc = "plan"
  /\ result' = Outcome("create_generation_plan", PlanResult(pf))
  /\ pc' = "idle"
  /\ pf' = NoPlanFrame
  /\ UNCHANGED <<service, remote, counters, ef, gf, planning_initialized, parsing, lf, database>>

\* ----------------------------------------------------------- reset_system
\* The records of s at the positions in kept, in order.
RECURSIVE KeepFrom(_, _, _)
KeepFrom(s, kept, k) ==
  IF k > Len(s) THEN <<>>
  ELSE (IF k \in kept THEN <<s[k]>> ELSE <<>>) \o KeepFrom(s, kept, k + 1)

\* reset_system of app.py: every record is deleted from the database, a
\* record whose deletion raises staying; then the client is closed and the
\* seven fields of the service are cleared, or, when close() raises, none
\* of them is.  The vector index is not touched: what it held stays in it.
\* The endpoint answers success whatever failed.
ResetSystem ==
  /\ pc = "idle"
  /\ \E kept \in SUBSET (1..Len(store)), closeFails \in BOOLEAN :
       /\ closeFails => client # 0
       /\ IF kept = 1..Len(store)
          THEN UNCHANGED <<store, indexPre, received>>
          ELSE /\ store' = KeepFrom(store, kept, 1)
               /\ indexPre' = IndexHasData
               /\ received' = [k \in 1..Cardinality(kept) |-> 0]
       /\ IF closeFails
          THEN UNCHANGED <<service, connected>>
          ELSE /\ client' = 0 /\ vectorstore' = 0 /\ retriever' = 0
               /\ llm' = 0 /\ app' = NoApp
               /\ is_initialized' = FALSE /\ is_embedded' = FALSE
               /\ connected' = 0
  /\ result' = [NoResult EXCEPT !.op = "reset_system", !.success = TRUE]
  /\ UNCHANGED <<counters, pc, ef, gf>>
  /\ UNCHANGED aux

Next ==
  \/ Initialize
  \/ EmbedStart
  \/ EmbedBatch
  \/ EmbedFinish
  \/ GenerateTestCases
  \/ GenerateTestCasesWithPlan
  \/ RetrieveNode
  \/ GenerateNode
  \/ GenerateRetry
  \/ GenerateReturn

\* The service from its construction on.
Spec == Init /\ [][Next]_vars

\* The calls of Spec together with the system reset.
NextReset == Next \/ ResetSystem

SpecReset == Init /\ [][NextReset]_vars

\* The state initialize() leaves when every remote call of it succeeded.
Initialized(found) ==
  /\ client = 1 /\ vectorstore = 1 /\ llm = 1 /\ connected = 1
  /\ retriever = (IF found THEN 1 ELSE 0)
  /\ app = (IF found THEN SetupWorkflow(NoTemplate) ELSE NoApp)
  /\ is_initialized = TRUE /\ is_embedded = found
  /\ indexPre = found
  /\ received = [k \in 1..Len(store) |-> 0]
  /\ inits = 1 /\ embeds = 0
  /\ everAddFailed = FALSE
  /\ pc = "idle"
  /\ ef = NoEmbedFrame /\ gf = NoGenFrame
  /\ result = [op |-> "initialize", success |-> TRUE, error |-> ""]
  /\ InitAux

\* embed_documents on an initialized service, over stores of one record up
\* to one full batch and ExtraDocs more.
InitEmbed ==
  /\ store \in {StoreOf(n) : n \in 1..(MaxBatchSize + ExtraDocs)}
                \cup {ShortStoreOf(ExampleDocs)}
  /\ Initialized(FALSE)

NextEmbed == EmbedStart \/ EmbedBatch \/ EmbedFinish

SpecEmbed == InitEmbed /\ [][NextEmbed]_vars

\* The generation calls on an initialized service whose index was filled
\* by an earlier process.
InitGen ==
  /\ store = StoreOf(0)
  /\ Initialized(TRUE)

NextGen ==
  \/ GenerateTestCases
  \/ GenerateTestCasesWithPlan
  \/ RetrieveNode
  \/ GenerateNode
  \/ GenerateRetry
  \/ GenerateReturn

SpecGen == InitGen /\ [][NextGen]_vars

\* The parser alone, on the responses of `Responses`.
InitParse == InitGen
NextParse == ParseResponse \/ ParseReturn
SpecParse == InitParse /\ [][NextParse]_vars

\* create_generation_plan alone, on a new planning service.
InitPlan ==
  /\ store = StoreOf(0)
  /\ Initialized(FALSE)

NextPlan == CreateGenerationPlan \/ PlanReturn

SpecPlan == InitPlan /\ [][NextPlan]_vars

\* The test-case store with a single writer, up to a stop of the process
\* inside _save_data and the re-opening of the store.
InitStore == InitGen
NextStore ==
  \/ CreateTestCase
  \/ UpdateTestCase
  \/ DeleteTestCase
  \/ ServiceUpdateTestCase
  \/ SaveRename
  \/ SaveOpen
  \/ SaveDump
  \/ SaveUnlink
  \/ SaveFail
  \/ DbReturn
  \/ Stop
  \/ InitDatabase
SpecStore == InitStore /\ [][NextStore]_vars

\* load_test_case_documents alone, on the records of `TestCases`.
InitLoad == InitGen
NextLoad == LoadTestCaseDocument \/ LoadReturn
SpecLoad == InitLoad /\ [][NextLoad]_vars

\* The planning optimizer alone, on the texts of `LongDocs`.
InitOptimize == InitPlan
NextOptimize == OptimizeDocumentation \/ OptimizeReturn
SpecOptimize == InitOptimize /\ [][NextOptimize]_vars

\* The four calls that return a dict, on an initialized service with one
\* record in the store and an index that is empty or was filled before.
InitCalls ==
  /\ store = StoreOf(1)
  /\ \E found \in BOOLEAN : Initialized(found)

NextCalls == NextEmbed \/ NextGen \/ NextPlan

SpecCalls == InitCalls /\ [][NextCalls]_vars

\* ================================================================ properties
GenOps == {"generate_test_cases", "generate_test_cases_with_plan"}

\* A step that is a call of generate_test_cases or of
\* generate_test_cases_with_plan: it starts the workflow or returns at once.
GenerationCallStep ==
  pc = "idle" /\ (pc' = "retrieve" \/ result'.op \in GenOps)

\* The loop of embed_documents has ended and the call is about to return.
AtEmbedReturn == pc = "embed_loop" /\ ef.i >= Len(ef.documents)

\* C1: a generation call on a service that is not initialized returns the
\* 'not initialized' error, and on an initialized service that is not
\* embedded the 'not embedded' error, the checks made in that order; the
\* call then retrieves nothing, invokes no model and changes no field.  A
\* retrieval of zero documents is no error: the generate node runs and
\* invokes the model, with an empty context.
C1_PreconditionErrors ==
  [][ /\ GenerationCallStep =>
           /\ ~is_initialized =>
                /\ result'.error = "RAG service not initialized"
                /\ ~result'.success
                /\ pc' = "idle"
                /\ UNCHANGED <<service, remote, gf>>
           /\ (is_initialized /\ ~is_embedded) =>
                /\ result'.error = "Documents not embedded"
                /\ ~result'.success
                /\ pc' = "idle"
                /\ UNCHANGED <<service, remote, gf>>
      /\ (pc = "generate" /\ gf.documents = <<>>) =>
           /\ pc' = "collect"
           /\ gf'.generated = 1
           /\ Len(gf'.invoked) = 1
           /\ gf'.invoked[1].context.len = 0
    ]_vars

C1_Witness ==
  /\ pc = "idle"
  /\ result.op = "generate_test_cases_with_plan"
  /\ result.error = "Documents not embedded"
  /\ is_initialized /\ ~is_embedded

\* C2: a generate_test_cases call made with custom_prompt=None runs the
\* generate node with the default template, never with a custom or enhanced
\* template an earlier call installed.
C2_TemplatePerCall ==
  (pc # "idle" /\ gf.op = "generate_test_cases" /\ gf.custom = NoTemplate)
    => gf.template = DefaultTemplate

\* C3 as stated: whenever the first invocation fails, one further
\* invocation is made with the context cut to 5,000 chars; if that fails
\* too the generation is the synthetic error; two invocations at most.
C3_AlwaysRetries ==
  pc = "collect" =>
    /\ Len(gf.invoked) \in 1..2
    /\ gf.first_failed =>
         /\ Len(gf.invoked) = 2
         /\ gf.invoked[2].context =
              CutContext(gf.invoked[1].context, RetryContextSize, RetryNoticeLen)
    /\ gf.retry_failed => gf.generation = ErrorGeneration

\* C3: when the first invocation fails and the context is longer than 5,000
\* chars, exactly one further invocation is made, with the context cut to
\* 5,000 chars plus the notice; when it fails and the context is 5,000 chars
\* or shorter no further invocation is made and the generation is the
\* synthetic error, as it is when the second invocation fails.  The model is
\* invoked at most twice and the node always returns a generation.
C3_RetriesLongContext ==
  /\ pc = "retry" => gf.first_failed /\ Len(gf.invoked) = 1
  /\ pc = "collect" =>
       /\ gf.generated = 1
       /\ Len(gf.invoked) \in 1..2
       /\ ~gf.first_failed => Len(gf.invoked) = 1 /\ ~gf.retry_failed
       /\ (gf.first_failed /\ gf.invoked[1].context.len > RetryContextSize) =>
            /\ Len(gf.invoked) = 2
            /\ gf.invoked[2].context =
                 CutContext(gf.invoked[1].context, RetryContextSize, RetryNoticeLen)
            /\ gf.invoked[2].context.len = RetryContextSize + RetryNoticeLen
            /\ gf.retry_failed => gf.generation = ErrorGeneration
       /\ (gf.first_failed /\ gf.invoked[1].context.len <= RetryContextSize) =>
            /\ Len(gf.invoked) = 1
            /\ gf.generation = ErrorGeneration

C3_Witness ==
  /\ pc = "collect"
  /\ gf.first_failed /\ gf.retry_failed
  /\ Len(gf.invoked) = 2
  /\ gf.generation = ErrorGeneration

\* The errors recorded for document k.
ErrorsOf(f, k) == {e \in DOMAIN f.errors : f.errors[e].doc = k}

\* C4: when embed_documents returns after its loop, whatever batches and
\* documents failed, embedded_count <= total_documents and
\* embedded_count + len(errors) = total_documents, every document being
\* either added once or recorded in one error.
C4_EveryDocumentAccounted ==
  AtEmbedReturn =>
    LET r == EmbedResult(ef)
    IN /\ r.success
       /\ r.embedded_count <= r.total_documents
       /\ r.embedded_count + Len(r.errors) = r.total_documents
       /\ \A k \in 1..r.total_documents :
            ef.added[k] + Cardinality(ErrorsOf(ef, k)) = 1

C4_Witness ==
  /\ AtEmbedReturn
  /\ Len(ef.documents) > MaxBatchSize
  /\ ef.embedded_count > 0
  /\ ef.errors # <<>>
  /\ \E k \in ef.fell_back : ef.added[k] = 1

\* C5: after a failed batch add every document of that batch is attempted
\* on its own exactly once, a document over 30,000 chars being recorded as
\* an error instead; a failing document does not stop the ones after it,
\* and the loop goes on through every remaining batch before the call
\* returns.
C5_FallbackTriesEveryDocument ==
  pc = "embed_loop" =>
    /\ \A k \in ef.fell_back :
         IF ef.documents[k].len > DocSkipLimit
         THEN /\ ef.tried[k] = 0
              /\ \E e \in ErrorsOf(ef, k) : ef.errors[e].kind = "too_large"
         ELSE ef.tried[k] = 1
    /\ ef.i = ef.batches * ef.batch_size
    /\ \A k \in 1..Min(ef.i, Len(ef.documents)) :
         k \in ef.fell_back \/ ef.added[k] = 1
    /\ AtEmbedReturn =>
         ef.batches * ef.batch_size >= Len(ef.documents)

C5_Witness ==
  /\ AtEmbedReturn
  /\ ef.batches = 2
  /\ 1 \in ef.fell_back
  /\ \E k \in ef.fell_back, j \in ef.fell_back :
       k < j /\ ef.added[k] = 0 /\ ef.added[j] = 1
  /\ ef.added[Len(ef.documents)] = 1

\* C6: embed_documents returns success=true when at least one document was
\* embedded, and a failure result when every add_documents call failed and
\* nothing of a non-empty document set was embedded.
C6_TotalFailureReported ==
  AtEmbedReturn =>
    LET r == EmbedResult(ef)
    IN /\ r.embedded_count > 0 => r.success
       /\ (r.total_documents > 0 /\ r.embedded_count = 0) => ~r.success

C8_InitializeIdempotent ==
  [][ (pc = "idle" /\ is_initialized /\ inits' = inits + 1) =>
        UNCHANGED <<service, connected>>
    ]_vars

\* C9: embed_documents on an embedded service does not fail and does not
\* deduplicate: after n calls in which no add failed, the index has received
\* the document of every record of the store n times, and is_embedded is
\* true from the first call on.
C9_ReembeddingAdditive ==
  (pc = "idle" /\ ~everAddFailed) =>
    /\ \A k \in DOMAIN received : received[k] = embeds
    /\ embeds > 0 =>
         /\ is_embedded
         /\ result.op = "embed_documents" /\ result.success

C9_Witness ==
  /\ pc = "idle"
  /\ ~everAddFailed
  /\ embeds = 2
  /\ Len(store) = 2
  /\ \A k \in DOMAIN received : received[k] = 2
  /\ is_embedded

\* C10: the final_prompt generate_test_cases returns is the template
\* formatted with the returned context_used and the question, the prompt of
\* the last model invocation, on every path of the generate node.
C10_FinalPromptIsLastPrompt ==
  (pc = "collect" /\ gf.op = "generate_test_cases"
     /\ GenerationResult(gf).success) =>
    LET r == GenerationResult(gf)
    IN /\ r.final_prompt = Format(gf.template, r.context_used, gf.question)
       /\ r.final_prompt = gf.invoked[Len(gf.invoked)]

DictOps ==
  {"embed_documents", "generate_test_cases", "generate_test_cases_with_plan",
   "create_generation_plan"}

\* C12: whatever remote call fails, embed_documents, generate_test_cases,
\* generate_test_cases_with_plan and create_generation_plan return a dict
\* with a boolean 'success', and with an 'error' when success is false; a
\* failure of the index or of a model is answered by a failure result or,
\* inside the generate node, by the synthetic generation.
C12_FailuresReturned ==
  /\ (pc = "idle" /\ result.op \in DictOps) =>
       /\ result.success \in BOOLEAN
       /\ ~result.success => result.error # ""
  /\ AtEmbedReturn =>
       /\ EmbedResult(ef).success \in BOOLEAN
       /\ ~EmbedResult(ef).success => EmbedResult(ef).error # ""
  /\ pc = "collect" =>
       /\ GenerationResult(gf).success \in BOOLEAN
       /\ ~GenerationResult(gf).success => GenerationResult(gf).error # ""
  /\ pc = "plan" =>
       /\ PlanResult(pf).success \in BOOLEAN
       /\ ~PlanResult(pf).success => PlanResult(pf).error # ""
       /\ pf.answer.kind = "raised" => ~PlanResult(pf).success

C12_Witness ==
  /\ pc = "idle"
  /\ result.op = "create_generation_plan"
  /\ ~result.success
  /\ result.error = "planning model failed"
  /\ everAddFailed

\* C13: on an initialized, embedded service whose retrieval and model
\* invocation succeed, generate_test_cases returns success = true for every
\* output of the model, the empty string and prose included, and for these
\* two generated_cases is the empty list.
C13_EveryOutputSucceeds ==
  (/\ pc = "collect"
   /\ gf.op = "generate_test_cases"
   /\ ~gf.first_failed /\ ~gf.retry_failed)
  => /\ GenerationResult(gf).success
     /\ gf.generation \in {"", "prose"} =>
          GenerationResult(gf).generated_cases = <<>>

\* A match of some pattern that json.loads rejects.
SomeMatchUndecodable(toks) ==
  \E k \in DOMAIN Patterns :
    \E m \in DOMAIN MatchesOf(toks, k) : ~Loads(MatchesOf(toks, k)[m]).ok

\* C14: the parser never raises and always returns a list, whatever the
\* response: text without JSON, truncated or undecodable JSON, arrays of
\* values that are not objects.
C14_ParserReturnsList ==
  /\ pc # "raised"
  /\ pc = "parsed" =>
       /\ \E n \in 0..Len(response) : DOMAIN test_cases = 1..n
       /\ \A k \in DOMAIN test_cases :
            DOMAIN test_cases[k] = DOMAIN NormalizeTestCase(JDict(<<>>))

C14_Witness ==
  /\ pc = "parsed"
  /\ SomeMatchUndecodable(response)
  /\ \E k \in DOMAIN response : response[k] = T("num", "1")
  /\ test_cases = <<>>

\* C15: every record the parser returns has a non-empty id, purpose and
\* scenerio; a candidate that lacks one of them is dropped.
C15_RequiredFieldsNonEmpty ==
  pc = "parsed" =>
    \A k \in DOMAIN test_cases :
      /\ test_cases[k].id # <<>>
      /\ test_cases[k].purpose # <<>>
      /\ test_cases[k].scenerio # <<>>

\* The records a strategy yields on its own: the four patterns in the order
\* of the list, then the text format.
StrategyCases(toks, k) ==
  IF k <= Len(Patterns) THEN CasesOfPattern(toks, k) ELSE ParseTextFormat(toks)
Yielding(toks) ==
  {k \in 1..(Len(Patterns) + 1) : StrategyCases(toks, k) # <<>>}

\* C16: the strategies are tried in the order fenced array, fenced object,
\* unfenced array with "id", unfenced simple objects with "id", text
\* fallback; the result is exactly the records of the first strategy in
\* that order that yields a record passing validation, and nothing of any
\* later strategy.
C16_FirstStrategyWins ==
  pc = "parsed" =>
    IF Yielding(response) = {} THEN test_cases = <<>>
    ELSE \E k \in Yielding(response) :
           /\ \A j \in Yielding(response) : k <= j
           /\ test_cases = StrategyCases(response, k)

C16_Witness ==
  /\ pc = "parsed"
  /\ {1, 3, 4} \subseteq Yielding(response)
  /\ test_cases = StrategyCases(response, 1)
  /\ StrategyCases(response, 3) # StrategyCases(response, 1)

\* C17: for every record r with id, purpose and scenerio, parsing the text
\* json.dumps([r]) in a fenced json code block returns exactly
\* [normalize(r)], a single record.
C17_RoundTrip ==
  pc = "parsed" =>
    \A case \in Cases :
      response = RoundTrip(case) => test_cases = <<NormalizeTestCase(case)>>

\* The answer at hand is a JSON object.
AtPlanData == pc = "plan" /\ pf.answer.kind = "json"
CallComplete(call) ==
  call.is_dict /\ \A field \in required_call_fields : field \in call.fields

\* C18: plan validation rejects a plan that misses one of the four
\* top-level fields, a plan whose generation_calls is not a non-empty list,
\* and a plan with a call that is no object or lacks call_id, focus_area,
\* description or content_scope; it accepts a plan with the four fields and
\* exactly one call that has the four call fields.
C18_PlanValidation ==
  AtPlanData =>
    LET d == pf.answer.data
    IN /\ (\E field \in required_fields : field \notin d.fields)
            => ~ValidatePlanStructure(d)
       /\ (~d.calls_is_list \/ d.generation_calls = <<>>)
            => ~ValidatePlanStructure(d)
       /\ (\E k \in DOMAIN d.generation_calls : ~CallComplete(d.generation_calls[k]))
            => ~ValidatePlanStructure(d)
       /\ (/\ required_fields \subseteq d.fields
           /\ d.calls_is_list /\ Len(d.generation_calls) = 1
           /\ CallComplete(d.generation_calls[1]))
            => ValidatePlanStructure(d)
       /\ ~ValidatePlanStructure(d) =>
            PlanResult(pf) = PlanFailure("Invalid plan structure returned from LLM")

C18_Witness ==
  /\ AtPlanData
  /\ pf.answer.data.fields = required_fields
  /\ pf.answer.data.generation_calls = <<FullCall(1, "a")>>
  /\ PlanResult(pf).success

\* C19: a plan that create_generation_plan returns with success has a
\* non-empty generation_calls whose call_id values are pairwise distinct,
\* so get_call_context finds exactly that call for each call_id of the plan.
C19_CallIdsUnique ==
  (pc = "plan" /\ PlanResult(pf).success) =>
    LET calls == PlanResult(pf).plan.generation_calls
    IN /\ calls # <<>>
       /\ \A i, j \in DOMAIN calls : calls[i].call_id = calls[j].call_id => i = j
       /\ \A k \in DOMAIN calls :
            /\ GetCallContext(PlanResult(pf).plan, calls[k].call_id).success
            /\ GetCallContext(PlanResult(pf).plan, calls[k].call_id).context.call = k

\* C20: after a successful create_generation_plan(doc) the plan's
\* original_documentation is doc itself, also when doc is longer than 25,000
\* chars and the prompt got the optimized text, also when the JSON of the
\* model has an original_documentation of its own; get_call_context returns
\* it and combined_documentation unchanged for every call of the plan.
C20_OriginalDocumentationKept ==
  (pc = "plan" /\ PlanResult(pf).success) =>
    LET plan == PlanResult(pf).plan
    IN /\ "original_documentation" \in plan.fields
       /\ plan.original_documentation = pf.doc
       /\ plan.combined_documentation = pf.answer.data.combined_documentation
       /\ \A k \in DOMAIN plan.generation_calls :
            LET r == GetCallContext(plan, plan.generation_calls[k].call_id)
            IN /\ r.success
               /\ r.context.original_documentation = pf.doc
               /\ r.context.combined_documentation = plan.combined_documentation

C20_Witness ==
  /\ pc = "plan" /\ PlanResult(pf).success
  /\ pf.doc.len > PlanningMaxSize
  /\ pf.optimized_doc # pf.doc
  /\ "original_documentation" \in pf.answer.data.fields
  /\ pf.answer.data.original_documentation # pf.doc
  /\ PlanResult(pf).plan.original_documentation = pf.doc

\* C21: for an input longer than 25,000 chars, with or without a priority
\* keyword or a paragraph break, _optimize_documentation_for_planning
\* returns a non-empty text of at most 25,000 chars, the note and a cut
\* paragraph counted.
C21_OptimizedWithinLimit ==
  pc = "optimized" =>
    /\ pf.optimized_doc.len > 0
    /\ pf.optimized_doc.len <= PlanningMaxSize

\* C22: the text of the document load_test_case_documents builds from a
\* stored record has at most 1,500 chars.
C22_DocumentWithinLimit ==
  pc = "loaded" => lf.doc.len <= ContentLimit

NoDuplicateKeys(data) ==
  \A i, j \in DOMAIN data : SameKey(data[i], data[j]) => i = j

\* C23: from a store without a duplicate key, after any sequence of
\* create_test_case, update_test_case/upsert_test_case and delete_test_case
\* no two stored records have the same (id, purpose), while two records
\* with the same id and different purposes can both be stored; a
\* create_test_case on an existing (id, purpose) returns false and leaves
\* the store unchanged.
C23_UniqueKeys ==
  /\ NoDuplicateKeys(LoadData(db_file))
  /\ (/\ pc = "db_return" /\ df.op = "create_test_case"
      /\ Duplicate(df.before, df.updated))
     => /\ ~df.ok
        /\ LoadData(db_file) = df.before

C23_Witness ==
  /\ pc = "db_return" /\ df.op = "create_test_case"
  /\ Duplicate(df.before, df.updated) /\ ~df.ok
  /\ \E i, j \in DOMAIN LoadData(db_file) :
       /\ LoadData(db_file)[i].id = LoadData(db_file)[j].id
       /\ LoadData(db_file)[i].purpose # LoadData(db_file)[j].purpose

\* C29: TestCaseService.update_test_case(case_id, updates) changes one
\* record in place, also when the updates change purpose or id: the number
\* of records stays, the first record with the id is replaced by the
\* updated one and every other record is as before.
C29_UpdateInPlace ==
  (pc = "db_return" /\ df.op = "service_update" /\ df.ok) =>
    LET after == LoadData(db_file)
        i == FirstIndex(df.before, LAMBDA item : item.id = df.case_id)
    IN /\ Len(after) = Len(df.before)
       /\ after[i] = df.updated
       /\ \A j \in DOMAIN after : j # i => after[j] = df.before[j]

\* C30: a stop of the process inside _save_data followed by the re-opening
\* of the store leaves either the complete previous records or the complete
\* new records; a failure while writing restores the previous file.
C30_CrashSafe ==
  /\ pc = "reopened" => LoadData(db_file) \in {df.before, df.saving}
  /\ (pc = "db_return" /\ df.saving # df.before /\ ~df.ok) =>
       LoadData(db_file) = df.before

\* The generate node has built the context of this run.
ContextBuilt == pc \in {"retry", "collect"} /\ gf.generated = 1
PartsOfRun == ContextParts(gf.documents, <<>>, 0)
\* The space left for the document after the parts that were taken whole.
SpaceAfter(parts) == max_context_size - (SumLen(parts) + 2 * Len(parts)) - 2
LastCut(docs, parts) ==
  parts # <<>> /\ parts[Len(parts)] # docs[Len(parts)]

\* C24: the document text joined into the context, before any notice, has
\* at most 15,000 chars; the documents are taken whole in order up to the
\* first that does not fit, which is cut to the remaining space when more
\* than 100 chars remain and dropped otherwise, and nothing after it is
\* included.
C24_ContextWithinCap ==
  ContextBuilt =>
    LET docs == gf.documents
        parts == PartsOfRun
        n == Len(parts)
        whole == IF LastCut(docs, parts) THEN SubSeq(parts, 1, n - 1) ELSE parts
    IN /\ JoinedLen(parts) <= max_context_size
       /\ n <= Len(docs)
       /\ whole = SubSeq(docs, 1, Len(whole))
       /\ LastCut(docs, parts) =>
            /\ SpaceAfter(whole) > MinRemainingSpace
            /\ parts[n].len = SpaceAfter(whole)
            /\ parts[n].len < docs[n].len
       /\ (n < Len(docs) /\ ~LastCut(docs, parts)) =>
            /\ SpaceAfter(whole) <= MinRemainingSpace
            /\ SumLen(whole) + 2 * Len(whole) + docs[n + 1].len + 2 > max_context_size
       /\ (n = Len(docs) /\ ~LastCut(docs, parts)) => parts = docs

C24_Witness ==
  /\ ContextBuilt
  /\ Len(gf.documents) = 3
  /\ Len(PartsOfRun) = 2
  /\ LastCut(gf.documents, PartsOfRun)
  /\ JoinedLen(PartsOfRun) = max_context_size - 2

\* C25: the truncation notice is appended to the context when a retrieved
\* document was dropped or cut to fit the cap, and it is not appended when
\* every retrieved document was included whole, whatever their text holds.
C25_NoticeIffTruncated ==
  ContextBuilt =>
    ((BuildContext(gf.documents).len = JoinedLen(PartsOfRun) + TruncationNoticeLen)
     <=> (Len(PartsOfRun) < Len(gf.documents) \/ LastCut(gf.documents, PartsOfRun)))

\* The documents of the batches processed so far, in the order they were
\* handed to the vector store.
RECURSIVE Flatten(_)
Flatten(batches) ==
  IF batches = <<>> THEN <<>> ELSE Head(batches) \o Flatten(Tail(batches))

\* floor(20000 / avg) for avg = total / count, in integers.
TargetPerAverage(docs) == (target_batch_size_bytes * Len(docs)) \div SumLen(docs)

\* C26: embed_documents uses batch_size = max(1, min(10, floor(20000 /
\* avg_doc_size))) with avg_doc_size = total chars / number of documents,
\* so the batch size is in 1..10; the batches are consecutive slices of the
\* loaded documents in store order, none empty or longer than batch_size,
\* and when the loop ends every document has been in exactly one batch;
\* seven documents of 400 chars form one batch of seven.
C26_ConsecutiveBatches ==
  pc = "embed_loop" =>
    /\ ef.batch_size = Max(1, Min(10, TargetPerAverage(ef.documents)))
    /\ ef.batch_size \in 1..10
    /\ Flatten(ef.batch_docs) = [k \in 1..Min(ef.i, Len(ef.documents)) |-> k]
    /\ \A b \in DOMAIN ef.batch_docs :
         /\ Len(ef.batch_docs[b]) \in 1..ef.batch_size
         /\ b < Len(ef.batch_docs) => Len(ef.batch_docs[b]) = ef.batch_size
    /\ AtEmbedReturn =>
         /\ Len(Flatten(ef.batch_docs)) = Len(ef.documents)
         /\ \A k \in 1..Len(ef.documents) :
              Cardinality({b \in DOMAIN ef.batch_docs :
                             \E j \in DOMAIN ef.batch_docs[b] :
                               ef.batch_docs[b][j] = k}) = 1
         /\ (ef.documents = ShortStoreOf(ExampleDocs)) =>
              ef.batch_docs = << [k \in 1..ExampleDocs |-> k] >>

C26_Witness ==
  /\ AtEmbedReturn
  /\ Len(ef.documents) > MaxBatchSize
  /\ Len(ef.batch_docs) = 2
  /\ Len(ef.batch_docs[2]) = Len(ef.documents) - MaxBatchSize

\* The seven documents of 400 chars have been embedded.
C26_ExampleEmbedded ==
  /\ AtEmbedReturn
  /\ ef.documents = ShortStoreOf(ExampleDocs)
  /\ SumLen(ef.documents) = 400 * ExampleDocs
  /\ ef.batches = 1


\* C27: generate_test_cases_with_plan puts at most the first 20,000 chars
\* of original_documentation in its query, and a call whose preconditions
\* hold and whose call id is in the plan always starts the workflow: a
\* query over 25,000 chars is truncated and the call does not fail because
\* of the size of the query.
C27_QuerySizeNeverFails ==
  [][GenerateTestCasesWithPlan =>
       \/ /\ pc' = "retrieve"
          /\ \E c \in CallContexts :
               /\ gf'.question <= FocusedQueryLen(c)
               /\ gf'.question - QueryLabelsLen - c.focus_area
                    - c.content_scope - c.description <= DocQueryLimit
       \/ /\ pc' = "idle"
          /\ result'.error \in {"RAG service not initialized",
                                "Documents not embedded",
                                "Call ID not found in plan"}]_vars


\* C28: in every state reached by initialize, embed_documents, the two
\* generation calls and the system reset, whichever of their remote calls
\* fail, is_initialized and is_embedded both true imply that the retriever
\* and the compiled workflow are set; a generation call that passes the
\* two precondition checks never finds the workflow missing.
C28_EmbeddedHasWorkflow ==
  /\ (is_initialized /\ is_embedded) => (retriever # 0 /\ app.set)
  /\ result.error # "NoneType has no attribute stream"

\* Both flags true after a reset whose client.close() raised, on a service
\* that embed_documents brought to the embedded state.
C28_Witness ==
  /\ result.op = "reset_system"
  /\ is_initialized /\ is_embedded
  /\ retriever # 0 /\ app.set
  /\ ~indexPre /\ embeds > 0

====
